---- MODULE Spec2Model ----
(***************************************************************************)
(* Verification model of the Dekr Polygon data service:                    *)
(*   - utils/rate_limiter.py       RateLimiter (sliding window per key)    *)
(*   - services/websocket_service.py  WebSocketManager (sink registry,     *)
(*     broadcast, upstream connector loop)                                 *)
(*   - app.py  websocket_endpoint (the per-sink connection handler)        *)
(*   - services/polygon_service.py, utils/cache_manager.py  the pull path  *)
(* Several specifications are defined over one state; each drives one      *)
(* subsystem and leaves the variables of the others unchanged.             *)
(***************************************************************************)
EXTENDS Integers, Sequences, FiniteSets, TLC

VARIABLES
    \* ---- RateLimiter (utils/rate_limiter.py) ----
    now,              \* the wall clock read by datetime.now(), in seconds
    request_history,  \* self.request_history: key -> queue of timestamps
    last_cleanup,     \* self.last_cleanup
    rl,               \* the most recent limiter call and what it returned
    admitted,         \* history: per key, the timestamps of the admitted calls
    tiers_used,       \* history: per key, the tiers is_allowed was called with
    ncalls,           \* history: per key, the number of is_allowed calls
    first_call,       \* history: per key, the time of the first is_allowed call
    nosweep_history,  \* the request_history of a limiter that receives the
                      \* same calls and never runs _cleanup_old_entries
    \* ---- WebSocketManager (services/websocket_service.py) ----
    connections,        \* self.connections: symbol -> list of sinks
    subscribed_symbols, \* self.subscribed_symbols
    polygon_ws,         \* self.polygon_ws: "none", "open", "closed_ok", "closed_err"
    authed,             \* auth_success was received on the connection polygon_ws
    conn_pc,            \* where start_polygon_websocket is suspended
    resub,              \* the resubscribe loop: symbols left, symbol being sent
    sleep_left,         \* seconds left of the asyncio.sleep the loop is in
    sleep_in_conn,      \* the sleep runs inside "async with websockets.connect"
    bc,                 \* the broadcast_to_symbol call in progress
    sink_pc,            \* per sink: where its websocket_endpoint handler is
    sink_sym,           \* per sink: the symbol of its /ws/{symbol} connection
    alive,              \* per sink: the client is still there (send_text works)
    send_ok,            \* per task: its pending upstream send can still complete
    out,                \* the upstream frame written by the latest step
    \* ---- history variables of the websocket manager ----
    sub_count,          \* per symbol: subscribe frames sent on the open,
                        \* authenticated connection since its sink set was empty
    emptied_by_bcast,   \* the symbols whose last sink a broadcast removed
    bres,               \* outcome of the broadcast the latest step completed
    fail_pending,       \* an auth failure was received and not yet retried
    waited,             \* seconds elapsed since that auth failure
    retry_gap,          \* the latest step started a connection attempt after
                        \* an auth failure: the seconds waited since the failure
    pm,                 \* the handle_polygon_message call in progress: the
                        \* frame, the item reached, the broadcasts made
    shut,               \* the disconnect_all call of the lifespan shutdown
    \* ---- PolygonDataService and CacheManager ----
    clock,              \* datetime.now() as read by the service and the cache
    redis_client,       \* self.redis_client: "Redis" or "MockRedis"
    redis_up,           \* the Redis server answers (always TRUE with MockRedis)
    data,               \* the store: key -> serialized value
    expires,            \* the store: key -> expiry time
    req,                \* the single quote request waiting for the upstream
    batch,              \* the get_batch_quotes call waiting for its tasks
    \* ---- history variables of the service ----
    ev,                 \* what the latest step of the service did
    set_at,             \* per stored key: the time of the set that wrote it
    set_ttl,            \* per stored key: the ttl of the set that wrote it
    set_by,             \* per key stored by a call of CacheManager.set made on
                        \* its own: the value given to the set, and whether
                        \* it replaced an entry that had time left
    last_fetch          \* per symbol: when its latest upstream quote arrived

rlvars == <<now, request_history, last_cleanup, rl, admitted, tiers_used,
            ncalls, first_call, nosweep_history>>

wsvars == <<connections, subscribed_symbols, polygon_ws, authed, conn_pc, resub,
            sleep_left, sleep_in_conn, bc, sink_pc, sink_sym, alive, send_ok,
            out, sub_count, emptied_by_bcast, bres, fail_pending, waited,
            retry_gap, pm, shut>>

psvars == <<clock, redis_client, redis_up, data, expires, req, batch, ev,
            set_at, set_ttl, set_by, last_fetch>>

vars == <<rlvars, wsvars, psvars>>

----------------------------------------------------------------------------
(* Bounds of the model *)

\* the clock runs from 0 to MaxTicks * TickLen seconds
MaxTicks == 4
\* at most MaxCalls calls of is_allowed are made on a key in one run
MaxCalls == 12

\* the rate-limit key the limiter is driven with (app.py builds "quote:<symbol>")
Keys == {"quote:X"}
\* two more keys of the endpoints, for the runs in which the sweep meets
\* several keys: one key is called up to its quota, the other a few times
BusyKey == "market_data:X"
OtherKey == "batch_quotes"
AllKeys == Keys \cup {BusyKey, OtherKey}
MaxBusyCalls == 11
MaxOtherCalls == 2
CallCap(key) == IF key \in Keys THEN MaxCalls
                ELSE IF key = BusyKey THEN MaxBusyCalls ELSE MaxOtherCalls

----------------------------------------------------------------------------
(* models/data_models.py : the tier table *)

FREEMIUM == 1
MARKET_HOURS_PRO == 2
SECTOR_SPECIALIST == 3
WEEKEND_WARRIOR == 4
DARK_POOL_INSIDER == 5
ALGORITHMIC_TRADER == 6
INSTITUTIONAL_ELITE == 7

DataTier == 1..7

TIER_CONFIGS ==
    [t \in DataTier |->
        [real_time_delay       |-> <<3600, 900, 900, 300, 300, 60, 30>>[t],
         historical_cache_ttl  |-> <<86400, 3600, 3600, 1800, 1800, 300, 300>>[t],
         news_cache_ttl        |-> <<7200, 1800, 1800, 900, 900, 300, 300>>[t],
         rate_limit_per_minute |-> <<10, 30, 50, 100, 200, 500, 1000>>[t],
         websocket_enabled     |-> (t # 1),
         batch_size_limit      |-> <<5, 10, 25, 50, 100, 200, 500>>[t]]]

get_tier_config(tier) ==
    IF tier \in DOMAIN TIER_CONFIGS THEN TIER_CONFIGS[tier]
    ELSE TIER_CONFIGS[FREEMIUM]

\* the tiers the limiter is driven with
RLTiers == {FREEMIUM, MARKET_HOURS_PRO}

----------------------------------------------------------------------------
(* utils/rate_limiter.py *)

\* timedelta(minutes=1), in seconds
Window == 60
\* self.cleanup_interval
cleanup_interval == 60

\* the clock advances in steps of half a window: timestamps 0, 30, 60, 90, ..
\* give ages below, equal to and above the 60 second window
TickLen == Window \div 2

\* "no timestamp"
NoTime == 0 - 1

\* while requests and requests[0] < minute_ago: requests.popleft()
RECURSIVE PopOld(_, _)
PopOldKeepingAll(requests, minute_ago) == requests
PopOld(requests, minute_ago) ==
    IF requests # <<>> /\ Head(requests) < minute_ago
    THEN PopOld(Tail(requests), minute_ago)
    ELSE requests

\* self.request_history[key] on a defaultdict(deque): a missing key is created
Touch(history, key) ==
    IF key \in DOMAIN history THEN history ELSE history @@ (key :> <<>>)

\* a sweep that drops every key when it is due
_cleanup_drops_all(history, lc, t) ==
    IF t - lc < cleanup_interval THEN <<history, lc>> ELSE <<<<>>, t>>

\* _cleanup_old_entries at clock reading t: (request_history, last_cleanup)
_cleanup_old_entries(history, lc, t) ==
    IF t - lc < cleanup_interval
    THEN <<history, lc>>
    ELSE LET pruned == [k \in DOMAIN history |-> PopOld(history[k], t - Window)]
             kept   == {k \in DOMAIN history : pruned[k] # <<>>}
         IN  <<[k \in kept |-> pruned[k]], t>>

\* the decision of is_allowed on the pruned queue
LimitReachedOffByOne(requests, limit) == Len(requests) > limit
LimitReached(requests, limit) == Len(requests) >= limit

\* an append that does not reach the queue stored under the key
record_request_lost(requests, t) == requests

\* requests.append(now): the queue is the one stored under the key, so the
\* next call on the key finds the timestamp
record_request(requests, t) == Append(requests, t)

\* a denial that records the denied request as well
denied_queue_recorded(requests, t) == Append(requests, t)

\* line 39-41: "return False" comes before the append, the pruned queue
\* stays as it is
denied_queue(requests, t) == requests

\* is_allowed after its call of the sweep: the queue of the key is created
\* if missing, pruned, checked against the limit and appended to
check_and_record(history, key, limit, t) ==
    LET hist     == Touch(history, key)
        requests == PopOld(hist[key], t - Window)
        denied   == LimitReached(requests, limit)
    IN  [history |-> [hist EXCEPT ![key] = IF denied
                                           THEN denied_queue(requests, t)
                                           ELSE record_request(requests, t)],
         ret     |-> ~denied]

\* get_remaining_requests counts the timestamps newer than a minute; the
\* queue is left as it is
recent_requests_unfiltered(requests, minute_ago) == Len(requests)
RECURSIVE recent_requests(_, _)
recent_requests(requests, minute_ago) ==
    IF requests = <<>> THEN 0
    ELSE (IF Head(requests) > minute_ago THEN 1 ELSE 0)
            + recent_requests(Tail(requests), minute_ago)

Max(a, b) == IF a >= b THEN a ELSE b

\* what get_remaining_requests returns at time t
remaining(history, key, tier, t) ==
    LET limit == get_tier_config(tier).rate_limit_per_minute
        hist  == Touch(history, key)
    IN  Max(0, limit - recent_requests(hist[key], t - Window))

----------------------------------------------------------------------------
(* RateLimiter operations *)

\* is_allowed(key, tier); the clock is read once by the sweep (t1) and once
\* by the check itself (t2 >= t1)
is_allowed(key, tier, d) ==
    /\ ncalls[key] < CallCap(key)
    /\ now + d <= MaxTicks * TickLen
    /\ LET t1       == now
           t2       == now + d
           swept    == _cleanup_old_entries(request_history, last_cleanup, t1)
           limit    == get_tier_config(tier).rate_limit_per_minute
           hist     == Touch(swept[1], key)
           requests == PopOld(hist[key], t2 - Window)
           denied   == LimitReached(requests, limit)
           before   == IF key \in DOMAIN request_history
                       THEN request_history[key] ELSE <<>>
           unswept  == check_and_record(nosweep_history, key, limit, t2)
       IN  /\ now' = t2
           /\ last_cleanup' = swept[2]
           /\ request_history' =
                [hist EXCEPT ![key] = IF denied THEN denied_queue(requests, t2)
                                      ELSE record_request(requests, t2)]
           /\ rl' = [op |-> "is_allowed", key |-> key, tier |-> tier,
                     time |-> t2, ret |-> ~denied,
                     prelen |-> Len(before),
                     prehead |-> IF before = <<>> THEN NoTime ELSE Head(before),
                     nosweep |-> unswept.ret, value |-> 0]
           /\ nosweep_history' = unswept.history
           /\ admitted' = IF denied THEN admitted
                          ELSE [admitted EXCEPT ![key] = Append(@, t2)]
           /\ tiers_used' = [tiers_used EXCEPT ![key] = @ \cup {tier}]
           /\ ncalls' = [ncalls EXCEPT ![key] = @ + 1]
           /\ first_call' = IF first_call[key] = NoTime
                            THEN [first_call EXCEPT ![key] = t2]
                            ELSE first_call
           /\ UNCHANGED <<wsvars, psvars>>

\* time passes between two requests
AdvanceClock ==
    /\ now + TickLen <= MaxTicks * TickLen
    /\ now' = now + TickLen
    /\ UNCHANGED <<request_history, last_cleanup, rl, admitted, tiers_used,
                   ncalls, first_call, nosweep_history>>
    /\ UNCHANGED <<wsvars, psvars>>

InitRL ==
    /\ now = 0
    /\ request_history = <<>>
    /\ last_cleanup = 0
    /\ rl = [op |-> "none", key |-> "", tier |-> 0, time |-> 0, ret |-> FALSE,
             prelen |-> 0, prehead |-> NoTime, nosweep |-> FALSE, value |-> 0]
    /\ admitted = [k \in AllKeys |-> <<>>]
    /\ tiers_used = [k \in AllKeys |-> {}]
    /\ ncalls = [k \in AllKeys |-> 0]
    /\ first_call = [k \in AllKeys |-> NoTime]
    /\ nosweep_history = <<>>

IsAllowedCall == \E k \in Keys, t \in RLTiers, d \in {0, TickLen} : is_allowed(k, t, d)

NextRL ==
    \/ IsAllowedCall
    \/ AdvanceClock

\* get_remaining_requests(key, tier): reading the defaultdict creates the
\* queue of a key that has none
get_remaining_requests(key, tier) ==
    LET hist == Touch(request_history, key)
    IN  /\ request_history' = hist
        /\ nosweep_history' = Touch(nosweep_history, key)
        /\ rl' = [op |-> "get_remaining_requests", key |-> key, tier |-> tier,
                  time |-> now, ret |-> FALSE, prelen |-> Len(hist[key]),
                  prehead |-> IF hist[key] = <<>> THEN NoTime
                              ELSE Head(hist[key]),
                  nosweep |-> FALSE,
                  value |-> remaining(request_history, key, tier, now)]
        /\ UNCHANGED <<now, last_cleanup, admitted, tiers_used, ncalls,
                       first_call>>
        /\ UNCHANGED <<wsvars, psvars>>

\* get_reset_time(key): the head of the queue plus one minute, None (NoTime)
\* for an empty queue; the queue is not pruned
get_reset_time(key) ==
    LET hist     == Touch(request_history, key)
        requests == hist[key]
    IN  /\ request_history' = hist
        /\ nosweep_history' = Touch(nosweep_history, key)
        /\ rl' = [op |-> "get_reset_time", key |-> key, tier |-> 0,
                  time |-> now, ret |-> FALSE, prelen |-> Len(requests),
                  prehead |-> IF requests = <<>> THEN NoTime
                              ELSE Head(requests),
                  nosweep |-> FALSE,
                  value |-> IF requests = <<>> THEN NoTime
                            ELSE Head(requests) + Window]
        /\ UNCHANGED <<now, last_cleanup, admitted, tiers_used, ncalls,
                       first_call>>
        /\ UNCHANGED <<wsvars, psvars>>

GetRemaining == \E k \in Keys, t \in RLTiers : get_remaining_requests(k, t)

GetResetTime == \E k \in Keys : get_reset_time(k)

\* the limiter with its queries
NextQuery ==
    \/ IsAllowedCall
    \/ AdvanceClock
    \/ GetRemaining
    \/ GetResetTime

\* requests of one tier on two keys
BusyKeyCall == \E d \in {0, TickLen} : is_allowed(BusyKey, FREEMIUM, d)

OtherKeyCall == is_allowed(OtherKey, FREEMIUM, 0)

NextSweep ==
    \/ BusyKeyCall
    \/ OtherKeyCall
    \/ AdvanceClock

----------------------------------------------------------------------------
(* services/websocket_service.py : WebSocketManager, and the per-sink      *)
(* handler websocket_endpoint of app.py.  Every action runs one task from  *)
(* one suspension point (an await on network I/O) to the next.             *)

\* the downstream connections (WebSocket objects) and the symbols they ask for
SinkOrder == <<"s1", "s2", "s3">>
Sinks == {SinkOrder[i] : i \in 1..Len(SinkOrder)}
Symbols == {"X", "Y"}
NoSym == "-"
Connector == "connector"

\* await asyncio.sleep(5) after ConnectionClosed
close_backoff == 5
\* await asyncio.sleep(30) after an auth failure
auth_backoff_short == close_backoff
auth_backoff == 30
\* await asyncio.sleep(30) after any other exception
error_backoff == 30
\* time advances in steps of the shortest sleep
TickWS == close_backoff
\* the measured wait saturates one step above the longest sleep
WaitCap == auth_backoff + TickWS
NoGap == 0 - 1

\* the frame counters stop at "more than one"
CountUp(n) == IF n < 2 THEN n + 1 ELSE n

NoFrame == [action |-> "none", sym |-> NoSym, authed |-> FALSE]
Frame(action, sym, isAuthed) == [action |-> action, sym |-> sym, authed |-> isAuthed]

NoResub == [todo |-> {}, cur |-> NoSym]
NoBc == [sym |-> NoSym, idx |-> 0, cur |-> NoSym, failed |-> <<>>,
         attached |-> FALSE, start |-> <<>>, delivered |-> {}]
NoPm == [pc |-> "idle"]
NoShut == [pc |-> "idle"]
NoRes == [done |-> FALSE, sym |-> NoSym, mixed |-> FALSE, missed |-> {},
          stuck |-> {}, dropped |-> {}, raised |-> FALSE]

Range(seq) == {seq[i] : i \in 1..Len(seq)}

\* self.polygon_ws and not self.polygon_ws.closed
ws_is_open == polygon_ws = "open"

\* list.remove(websocket) on a list that holds it
Remove(list, s) == SelectSeq(list, LAMBDA x : x # s)

\* websocket in self.connections[symbol]
Registered(conns, sym, s) == sym \in DOMAIN conns /\ s \in Range(conns[sym])

HasSinks(sym) == sym \in DOMAIN connections /\ connections[sym] # <<>>

\* del self.connections[symbol]
DelEntry(conns, sym) == [y \in DOMAIN conns \ {sym} |-> conns[y]]

\* disconnect, line 58: "if not self.connections[symbol]" after the remove
LastSinkLeftAlways(list, s) == TRUE
LastSinkLeft(list, s) == Remove(list, s) = <<>>

\* every pending upstream send fails once its connection is closed
BrokenSends == [t \in DOMAIN send_ok |-> FALSE]

----------------------------------------------------------------------------
(* app.py websocket_endpoint + WebSocketManager.connect / disconnect *)

\* Sinks and symbols are interchangeable until they are used: the sinks make
\* their connections in the order of SinkOrder, the first of them to "X"
ConnectsNext(s, sym) ==
    \E i \in 1..Len(SinkOrder) :
        /\ SinkOrder[i] = s
        /\ \A j \in 1..(i - 1) : sink_pc[SinkOrder[j]] # "idle"
        /\ i = 1 => sym = "X"

\* connect(), lines 27-34, up to the await of the upstream send
SinkConnect(s, sym) ==
    /\ sink_pc[s] = "idle"
    /\ ConnectsNext(s, sym)
    /\ LET conns1 == IF sym \in DOMAIN connections THEN connections
                     ELSE connections @@ (sym :> <<>>)
           sends  == sym \notin subscribed_symbols /\ ws_is_open
       IN  /\ connections' = [conns1 EXCEPT ![sym] = Append(@, s)]
           /\ sink_sym' = [sink_sym EXCEPT ![s] = sym]
           /\ sink_pc' = [sink_pc EXCEPT ![s] = IF sends THEN "sub_wait"
                                                ELSE "init_data"]
           /\ send_ok' = [send_ok EXCEPT ![s] = sends]
           /\ out' = IF sends THEN Frame("subscribe", sym, authed) ELSE NoFrame
           /\ sub_count' = IF sends /\ authed
                           THEN [sub_count EXCEPT ![sym] = CountUp(@)]
                           ELSE sub_count
    /\ UNCHANGED <<subscribed_symbols, polygon_ws, authed, conn_pc, resub,
                   sleep_left, sleep_in_conn, bc, alive, fail_pending,
                   waited>>
    /\ emptied_by_bcast' = emptied_by_bcast \ {sym}
    /\ bres' = NoRes
    /\ retry_gap' = NoGap
    /\ UNCHANGED <<pm, shut>>
    /\ UNCHANGED <<rlvars, psvars>>

\* subscribe_to_symbol, lines 112-116: the upstream send returns or raises
SinkSubResume(s) ==
    /\ sink_pc[s] = "sub_wait"
    /\ subscribed_symbols' = IF send_ok[s]
                             THEN subscribed_symbols \cup {sink_sym[s]}
                             ELSE subscribed_symbols
    /\ sink_pc' = [sink_pc EXCEPT ![s] = "init_data"]
    /\ send_ok' = [send_ok EXCEPT ![s] = FALSE]
    /\ out' = NoFrame
    /\ bres' = NoRes
    /\ retry_gap' = NoGap
    /\ UNCHANGED <<connections, polygon_ws, authed, conn_pc, resub, sleep_left,
                   sleep_in_conn, bc, sink_sym, alive, sub_count, fail_pending, waited,
                   emptied_by_bcast>>
    /\ UNCHANGED <<pm, shut>>
    /\ UNCHANGED <<rlvars, psvars>>

\* connect(), lines 38-49: the initial quote is sent (any failure is logged)
SinkInitialData(s) ==
    /\ sink_pc[s] = "init_data"
    /\ sink_pc' = [sink_pc EXCEPT ![s] = "open"]
    /\ out' = NoFrame
    /\ bres' = NoRes
    /\ retry_gap' = NoGap
    /\ UNCHANGED <<connections, subscribed_symbols, polygon_ws, authed, conn_pc,
                   resub, sleep_left, sleep_in_conn, bc, sink_sym, alive,
                   send_ok, sub_count, fail_pending,
                   waited,
                   emptied_by_bcast>>
    /\ UNCHANGED <<pm, shut>>
    /\ UNCHANGED <<rlvars, psvars>>

\* the client of a sink goes away: from now on send_text to it raises
SinkDies(s) ==
    /\ sink_pc[s] \in {"sub_wait", "init_data", "open"}
    /\ alive[s]
    /\ alive' = [alive EXCEPT ![s] = FALSE]
    /\ out' = NoFrame
    /\ bres' = NoRes
    /\ retry_gap' = NoGap
    /\ UNCHANGED <<connections, subscribed_symbols, polygon_ws, authed, conn_pc,
                   resub, sleep_left, sleep_in_conn, bc, sink_pc, sink_sym,
                   send_ok, sub_count, fail_pending,
                   waited,
                   emptied_by_bcast>>
    /\ UNCHANGED <<pm, shut>>
    /\ UNCHANGED <<rlvars, psvars>>

\* websocket_endpoint: receive_text raises WebSocketDisconnect, the finally
\* clause calls disconnect(), lines 53-65, up to the await of the upstream send
SinkDisconnect(s) ==
    /\ sink_pc[s] = "open"
    /\ ~alive[s]
    /\ LET sym     == sink_sym[s]
           found   == Registered(connections, sym, s)
           last    == found /\ LastSinkLeft(connections[sym], s)
           sends   == last /\ ws_is_open
       IN  /\ connections' =
                IF ~found THEN connections
                ELSE IF last THEN DelEntry(connections, sym)
                ELSE [connections EXCEPT ![sym] = Remove(@, s)]
           /\ sink_pc' = [sink_pc EXCEPT ![s] = IF sends THEN "unsub_wait"
                                                ELSE "done"]
           /\ sink_sym' = IF sends THEN sink_sym
                          ELSE [sink_sym EXCEPT ![s] = NoSym]
           /\ send_ok' = [send_ok EXCEPT ![s] = sends]
           /\ out' = IF sends THEN Frame("unsubscribe", sym, authed) ELSE NoFrame
           /\ sub_count' = IF last THEN [sub_count EXCEPT ![sym] = 0]
                           ELSE sub_count
           \* a broadcast iterating the deleted list keeps the old, empty list
           /\ bc' = IF last /\ bc.sym = sym THEN [bc EXCEPT !.attached = FALSE]
                    ELSE bc
    /\ UNCHANGED <<subscribed_symbols, polygon_ws, authed, conn_pc, resub,
                   sleep_left, sleep_in_conn, alive,
                   fail_pending, waited>>
    /\ emptied_by_bcast' = emptied_by_bcast
    /\ bres' = NoRes
    /\ retry_gap' = NoGap
    \* a disconnect_all iterating the deleted list keeps the old, empty list
    /\ shut' = IF shut.pc = "closing" /\ shut.sym \notin DOMAIN connections'
               THEN [shut EXCEPT !.attached = FALSE] ELSE shut
    /\ UNCHANGED pm
    /\ UNCHANGED <<rlvars, psvars>>

\* unsubscribe_from_symbol, lines 127-131: the upstream send returns or raises
SinkUnsubResume(s) ==
    /\ sink_pc[s] = "unsub_wait"
    /\ subscribed_symbols' = IF send_ok[s]
                             THEN subscribed_symbols \ {sink_sym[s]}
                             ELSE subscribed_symbols
    /\ sink_pc' = [sink_pc EXCEPT ![s] = "done"]
    /\ sink_sym' = [sink_sym EXCEPT ![s] = NoSym]
    /\ send_ok' = [send_ok EXCEPT ![s] = FALSE]
    /\ out' = NoFrame
    /\ bres' = NoRes
    /\ retry_gap' = NoGap
    /\ UNCHANGED <<connections, polygon_ws, authed, conn_pc, resub, sleep_left,
                   sleep_in_conn, bc, alive, sub_count, fail_pending, waited,
                   emptied_by_bcast>>
    /\ UNCHANGED <<pm, shut>>
    /\ UNCHANGED <<rlvars, psvars>>

----------------------------------------------------------------------------
(* WebSocketManager.start_polygon_websocket: the upstream connector loop *)

\* lines 159-164: the resubscribe loop runs on from the symbols `todo` until
\* its next upstream send, or falls through to the receive loop
ResubContinue(todo) ==
    IF todo = {} \/ ~ws_is_open
    THEN /\ conn_pc' = "listen"
         /\ resub' = NoResub
         /\ out' = NoFrame
         /\ send_ok' = [send_ok EXCEPT ![Connector] = FALSE]
         /\ UNCHANGED sub_count
    ELSE \E sym \in todo :
            /\ conn_pc' = "resub_wait"
            /\ resub' = [todo |-> todo \ {sym}, cur |-> sym]
            /\ out' = Frame("subscribe", sym, TRUE)
            /\ send_ok' = [send_ok EXCEPT ![Connector] = TRUE]
            /\ sub_count' = [sub_count EXCEPT ![sym] = CountUp(@)]

\* line 141-149: websockets.connect succeeds, the auth frame is sent
ConnOpened ==
    /\ conn_pc = "connecting"
    /\ polygon_ws' = "open"
    /\ authed' = FALSE
    /\ conn_pc' = "auth"
    /\ out' = Frame("auth", NoSym, FALSE)
    /\ sub_count' = [y \in Symbols |-> 0]
    /\ retry_gap' = NoGap
    /\ UNCHANGED <<connections, subscribed_symbols, resub, sleep_left,
                   sleep_in_conn, bc, sink_pc, sink_sym, alive, send_ok, fail_pending, waited,
                   emptied_by_bcast>>
    /\ bres' = NoRes
    /\ shut' = IF shut.pc = "upstream" THEN [shut EXCEPT !.target = FALSE]
               ELSE shut
    /\ UNCHANGED pm
    /\ UNCHANGED <<rlvars, psvars>>

\* line 141 raises (the network is down): except Exception, sleep 30
ConnFailed ==
    /\ conn_pc = "connecting"
    /\ conn_pc' = "sleep"
    /\ sleep_left' = error_backoff
    /\ sleep_in_conn' = FALSE
    /\ out' = NoFrame
    /\ retry_gap' = NoGap
    /\ UNCHANGED <<connections, subscribed_symbols, polygon_ws, authed, resub,
                   bc, sink_pc, sink_sym, alive, send_ok, sub_count, fail_pending, waited,
                   emptied_by_bcast>>
    /\ bres' = NoRes
    /\ UNCHANGED <<pm, shut>>
    /\ UNCHANGED <<rlvars, psvars>>

\* lines 152-160: the auth response says auth_success
AuthSuccess ==
    /\ conn_pc = "auth"
    /\ ws_is_open
    /\ authed' = TRUE
    /\ ResubContinue(subscribed_symbols)
    /\ UNCHANGED <<connections, subscribed_symbols, polygon_ws, sleep_left,
                   sleep_in_conn, bc, sink_pc, sink_sym, alive, fail_pending, waited,
                   emptied_by_bcast>>
    /\ bres' = NoRes
    /\ retry_gap' = NoGap
    /\ UNCHANGED <<pm, shut>>
    /\ UNCHANGED <<rlvars, psvars>>

\* lines 165-167: any other status: sleep 30 inside the "async with" block
AuthFailure ==
    /\ conn_pc = "auth"
    /\ ws_is_open
    /\ conn_pc' = "sleep"
    /\ sleep_left' = auth_backoff
    /\ sleep_in_conn' = TRUE
    /\ fail_pending' = TRUE
    /\ waited' = 0
    /\ out' = NoFrame
    /\ bres' = NoRes
    /\ retry_gap' = NoGap
    /\ UNCHANGED <<connections, subscribed_symbols, polygon_ws, authed, resub,
                   bc, sink_pc, sink_sym, alive, send_ok, sub_count,
                   emptied_by_bcast>>
    /\ UNCHANGED <<pm, shut>>
    /\ UNCHANGED <<rlvars, psvars>>

\* lines 153-155, 173-175: the auth response is not a JSON object: the
\* exception leaves the "async with" block, which closes the connection; sleep 30
AuthError ==
    /\ conn_pc = "auth"
    /\ ws_is_open
    /\ polygon_ws' = "closed_ok"
    /\ send_ok' = BrokenSends
    /\ conn_pc' = "sleep"
    /\ sleep_left' = error_backoff
    /\ sleep_in_conn' = FALSE
    /\ out' = NoFrame
    /\ bres' = NoRes
    /\ retry_gap' = NoGap
    /\ UNCHANGED <<connections, subscribed_symbols, authed, resub, bc, sink_pc,
                   sink_sym, alive, sub_count, fail_pending, waited,
                   emptied_by_bcast>>
    /\ UNCHANGED <<pm, shut>>
    /\ UNCHANGED <<rlvars, psvars>>

\* line 152: recv raises ConnectionClosed: the block is left, sleep 5
AuthClosed ==
    /\ conn_pc = "auth"
    /\ ~ws_is_open
    /\ conn_pc' = "sleep"
    /\ sleep_left' = close_backoff
    /\ sleep_in_conn' = FALSE
    /\ out' = NoFrame
    /\ bres' = NoRes
    /\ retry_gap' = NoGap
    /\ UNCHANGED <<connections, subscribed_symbols, polygon_ws, authed, resub,
                   bc, sink_pc, sink_sym, alive, send_ok, sub_count, fail_pending, waited,
                   emptied_by_bcast>>
    /\ UNCHANGED <<pm, shut>>
    /\ UNCHANGED <<rlvars, psvars>>

\* subscribe_to_symbol called by the loop, lines 112-116: the send returns or
\* raises, and the loop runs on
ResubResume ==
    /\ conn_pc = "resub_wait"
    /\ subscribed_symbols' = IF send_ok[Connector]
                             THEN subscribed_symbols \cup {resub.cur}
                             ELSE subscribed_symbols
    /\ ResubContinue(resub.todo)
    /\ UNCHANGED <<connections, polygon_ws, authed, sleep_left, sleep_in_conn,
                   bc, sink_pc, sink_sym, alive,
                   fail_pending, waited,
                   emptied_by_bcast>>
    /\ bres' = NoRes
    /\ retry_gap' = NoGap
    /\ UNCHANGED <<pm, shut>>
    /\ UNCHANGED <<rlvars, psvars>>

\* line 163: the receive loop ends on a normal close; the while loop starts
\* its next round at once
ListenClosedOK ==
    /\ conn_pc = "listen"
    /\ polygon_ws = "closed_ok"
    /\ conn_pc' = "connecting"
    /\ out' = NoFrame
    /\ bres' = NoRes
    /\ retry_gap' = NoGap
    /\ UNCHANGED <<connections, subscribed_symbols, polygon_ws, authed, resub,
                   sleep_left, sleep_in_conn, bc, sink_pc, sink_sym, alive,
                   send_ok, sub_count, fail_pending,
                   waited,
                   emptied_by_bcast>>
    /\ UNCHANGED <<pm, shut>>
    /\ UNCHANGED <<rlvars, psvars>>

\* a loop that ends on ConnectionClosed instead of lines 170-172
ListenClosedErrStops ==
    /\ conn_pc = "listen"
    /\ polygon_ws = "closed_err"
    /\ conn_pc' = "stopped"
    /\ sleep_left' = close_backoff
    /\ sleep_in_conn' = FALSE
    /\ out' = NoFrame
    /\ bres' = NoRes
    /\ retry_gap' = NoGap
    /\ UNCHANGED <<connections, subscribed_symbols, polygon_ws, authed, resub,
                   bc, sink_pc, sink_sym, alive, send_ok, sub_count, fail_pending, waited,
                   emptied_by_bcast>>
    /\ UNCHANGED <<pm, shut>>
    /\ UNCHANGED <<rlvars, psvars>>

\* lines 170-172: the receive loop raises ConnectionClosed: sleep 5
ListenClosedErr ==
    /\ conn_pc = "listen"
    /\ polygon_ws = "closed_err"
    /\ conn_pc' = "sleep"
    /\ sleep_left' = close_backoff
    /\ sleep_in_conn' = FALSE
    /\ out' = NoFrame
    /\ bres' = NoRes
    /\ retry_gap' = NoGap
    /\ UNCHANGED <<connections, subscribed_symbols, polygon_ws, authed, resub,
                   bc, sink_pc, sink_sym, alive, send_ok, sub_count, fail_pending, waited,
                   emptied_by_bcast>>
    /\ UNCHANGED <<pm, shut>>
    /\ UNCHANGED <<rlvars, psvars>>

\* asyncio.sleep returns: after an auth failure "continue" leaves the
\* "async with" block, which closes the connection; the next round starts
Wake ==
    /\ conn_pc = "sleep"
    /\ sleep_left = 0
    /\ conn_pc' = "connecting"
    /\ sleep_in_conn' = FALSE
    /\ polygon_ws' = IF sleep_in_conn /\ ws_is_open THEN "closed_ok"
                     ELSE polygon_ws
    /\ authed' = FALSE
    /\ send_ok' = IF sleep_in_conn THEN BrokenSends ELSE send_ok
    /\ sub_count' = [y \in Symbols |-> 0]
    /\ retry_gap' = IF fail_pending THEN waited ELSE NoGap
    /\ fail_pending' = FALSE
    /\ waited' = 0
    /\ out' = NoFrame
    /\ UNCHANGED <<connections, subscribed_symbols, resub, sleep_left, bc,
                   sink_pc, sink_sym, alive,
                   emptied_by_bcast>>
    /\ bres' = NoRes
    /\ UNCHANGED <<pm, shut>>
    /\ UNCHANGED <<rlvars, psvars>>

\* time passes while the loop sleeps: up to the end of the sleep, and then
\* TickWS seconds more (the task is resumed late)
Tick ==
    /\ conn_pc = "sleep"
    /\ sleep_left > 0 \/ (fail_pending /\ waited < WaitCap)
    /\ LET d == IF sleep_left > 0 THEN sleep_left ELSE TickWS
       IN  /\ sleep_left' = 0
           /\ waited' = IF ~fail_pending THEN waited
                        ELSE IF waited + d < WaitCap THEN waited + d
                        ELSE WaitCap
    /\ out' = NoFrame
    /\ bres' = NoRes
    /\ retry_gap' = NoGap
    /\ UNCHANGED <<connections, subscribed_symbols, polygon_ws, authed, conn_pc,
                   resub, sleep_in_conn, bc, sink_pc, sink_sym, alive, send_ok,
                   sub_count, fail_pending,
                   emptied_by_bcast>>
    /\ UNCHANGED <<pm, shut>>
    /\ UNCHANGED <<rlvars, psvars>>

\* the upstream server or the network closes the connection
UpstreamClose(kind) ==
    /\ ws_is_open
    /\ polygon_ws' = kind
    /\ authed' = FALSE
    /\ send_ok' = BrokenSends
    /\ sub_count' = [y \in Symbols |-> 0]
    /\ out' = NoFrame
    /\ bres' = NoRes
    /\ retry_gap' = NoGap
    /\ UNCHANGED <<connections, subscribed_symbols, conn_pc, resub, sleep_left,
                   sleep_in_conn, bc, sink_pc, sink_sym, alive, fail_pending,
                   waited, emptied_by_bcast>>
    /\ UNCHANGED <<pm, shut>>
    /\ UNCHANGED <<rlvars, psvars>>

----------------------------------------------------------------------------
(* WebSocketManager.broadcast_to_symbol, called by the receive loop through *)
(* handle_polygon_message and process_polygon_data                          *)

\* lines 97-101: the failed sinks are removed from the symbol's list
RECURSIVE RemoveAll(_, _)
RemoveAll(list, failed) ==
    IF failed = <<>> THEN list
    ELSE RemoveAll(Remove(list, Head(failed)), Tail(failed))

\* the list object the for loop of line 89 iterates
IterList == IF bc.attached THEN connections[bc.sym] ELSE <<>>

\* lines 84-91: a frame for `sym` arrives; the loop starts its first send
RecvMessage(sym) ==
    /\ conn_pc = "listen"
    /\ ws_is_open
    /\ IF ~HasSinks(sym)
       THEN /\ bres' = [NoRes EXCEPT !.done = TRUE, !.sym = sym]
            /\ UNCHANGED <<conn_pc, bc>>
       ELSE /\ conn_pc' = "bcast"
            /\ bc' = [sym |-> sym, idx |-> 1, cur |-> connections[sym][1],
                      failed |-> <<>>, attached |-> TRUE,
                      start |-> connections[sym], delivered |-> {}]
            /\ bres' = NoRes
    /\ out' = NoFrame
    /\ UNCHANGED <<connections, subscribed_symbols, polygon_ws, authed, resub,
                   sleep_left, sleep_in_conn, sink_pc, sink_sym, alive, send_ok,
                   sub_count, fail_pending, waited,
                   emptied_by_bcast>>
    /\ retry_gap' = NoGap
    /\ UNCHANGED <<pm, shut>>
    /\ UNCHANGED <<rlvars, psvars>>

\* lines 89-101: the pending send_text returns or raises; the loop goes on
\* to the next sink of the list, or removes the failed sinks and returns
BroadcastSendDone ==
    /\ conn_pc = "bcast"
    /\ LET sym        == bc.sym
           sent       == alive[bc.cur]
           delivered2 == IF sent THEN bc.delivered \cup {bc.cur} ELSE bc.delivered
           failed2    == IF sent THEN bc.failed ELSE Append(bc.failed, bc.cur)
           i          == bc.idx + 1
       IN  IF i <= Len(IterList)
           THEN /\ bc' = [bc EXCEPT !.idx = i, !.cur = IterList[i],
                                    !.failed = failed2, !.delivered = delivered2]
                /\ bres' = NoRes
                /\ UNCHANGED <<connections, conn_pc, sub_count,
                               emptied_by_bcast>>
           ELSE LET raised == failed2 # <<>> /\ sym \notin DOMAIN connections
                    conns2 == IF failed2 = <<>> \/ raised THEN connections
                              ELSE [connections EXCEPT
                                        ![sym] = RemoveAll(@, failed2)]
                    emptied == /\ sym \in DOMAIN conns2
                               /\ conns2[sym] = <<>>
                               /\ connections[sym] # <<>>
                IN  /\ connections' = conns2
                    /\ conn_pc' = "listen"
                    /\ bc' = NoBc
                    /\ bres' = [done    |-> TRUE,
                                sym     |-> sym,
                                mixed   |-> /\ failed2 # <<>>
                                            /\ \E s \in Range(bc.start) : alive[s],
                                missed  |-> {s \in Range(bc.start) :
                                                alive[s] /\ s \notin delivered2},
                                stuck   |-> {s \in Range(failed2) :
                                                Registered(conns2, sym, s)},
                                dropped |-> {s \in delivered2 :
                                                alive[s] /\ ~Registered(conns2, sym, s)},
                                raised  |-> raised]
                    /\ sub_count' = IF emptied THEN [sub_count EXCEPT ![sym] = 0]
                                    ELSE sub_count
                    /\ emptied_by_bcast' = IF emptied
                                           THEN emptied_by_bcast \cup {sym}
                                           ELSE emptied_by_bcast
    /\ out' = NoFrame
    /\ UNCHANGED <<subscribed_symbols, polygon_ws, authed, resub, sleep_left,
                   sleep_in_conn, sink_pc, sink_sym, alive, send_ok,
                   fail_pending, waited>>
    /\ retry_gap' = NoGap
    /\ UNCHANGED <<pm, shut>>
    /\ UNCHANGED <<rlvars, psvars>>

----------------------------------------------------------------------------
(* The websocket manager after construction; the lifespan handler has       *)
(* created the connector task                                               *)

InitWS ==
    /\ connections = <<>>
    /\ subscribed_symbols = {}
    /\ polygon_ws = "none"
    /\ authed = FALSE
    /\ conn_pc = "connecting"
    /\ resub = NoResub
    /\ sleep_left = 0
    /\ sleep_in_conn = FALSE
    /\ bc = NoBc
    /\ sink_pc = [s \in Sinks |-> "idle"]
    /\ sink_sym = [s \in Sinks |-> NoSym]
    /\ alive = [s \in Sinks |-> TRUE]
    /\ send_ok = [t \in Sinks \cup {Connector} |-> FALSE]
    /\ out = NoFrame
    /\ sub_count = [y \in Symbols |-> 0]
    /\ emptied_by_bcast = {}
    /\ bres = NoRes
    /\ fail_pending = FALSE
    /\ waited = 0
    /\ retry_gap = NoGap
    /\ pm = NoPm
    /\ shut = NoShut

SinkStep ==
    \E s \in Sinks :
        \/ \E sym \in Symbols : SinkConnect(s, sym)
        \/ SinkSubResume(s)
        \/ SinkInitialData(s)
        \/ SinkDies(s)
        \/ SinkDisconnect(s)
        \/ SinkUnsubResume(s)

ConnectorStep ==
    \/ ConnOpened
    \/ ConnFailed
    \/ AuthSuccess
    \/ AuthFailure
    \/ AuthError
    \/ AuthClosed
    \/ ResubResume
    \/ ListenClosedOK
    \/ ListenClosedErr
    \/ Wake
    \/ \E sym \in Symbols : RecvMessage(sym)
    \/ BroadcastSendDone

Environment ==
    \/ Tick
    \/ \E kind \in {"closed_ok", "closed_err"} : UpstreamClose(kind)

NextWS == SinkStep \/ ConnectorStep \/ Environment

\* the sinks connect and disconnect while the upstream connection is open
\* and authenticated and the connector loop waits for a frame
Steady == ws_is_open /\ authed /\ conn_pc = "listen"

SteadySinkStep ==
    \E s \in Sinks :
        \/ Steady /\ \E sym \in Symbols : SinkConnect(s, sym)
        \/ Steady /\ SinkSubResume(s)
        \/ Steady /\ SinkInitialData(s)
        \/ Steady /\ SinkDies(s)
        \/ Steady /\ SinkDisconnect(s)
        \/ Steady /\ SinkUnsubResume(s)

\* the connector loop connects and authenticates once; the connection stays
NextSteady == ConnOpened \/ AuthSuccess \/ SteadySinkStep

\* the steps of the first sink
FirstSinkStep ==
    LET s == SinkOrder[1]
    IN  \/ \E sym \in Symbols : SinkConnect(s, sym)
        \/ SinkSubResume(s)
        \/ SinkInitialData(s)
        \/ SinkDies(s)
        \/ SinkDisconnect(s)
        \/ SinkUnsubResume(s)

\* the connector loop next to one sink
NextConn == FirstSinkStep \/ ConnectorStep \/ Environment

\* the event loop runs a task that is ready (the connector, and the timer
\* that ends its sleep); the upstream accepts a connection and answers
\* auth_success again and again
FairConn ==
    /\ WF_vars(ConnectorStep)
    /\ WF_vars(Tick)
    /\ SF_vars(ConnOpened)
    /\ SF_vars(AuthSuccess)

----------------------------------------------------------------------------
(* WebSocketManager.handle_polygon_message and process_polygon_data: the    *)
(* dispatch of an upstream frame.  Of an item are kept: whether it is a     *)
(* JSON object (dict), its event code (ev), its symbol (sym: NoSym when the *)
(* key is missing, "" when it is empty) and whether the fields read for its *)
(* message convert (ok: the timestamp is a number).                         *)

MaxFrame == 2

EventCodes == {"Q", "T", "A", "status"}
ItemSyms == {"X", "", NoSym}
NotAnObject == [dict |-> FALSE, ev |-> "none", sym |-> NoSym, ok |-> FALSE]
Items == {NotAnObject}
            \cup [dict : {TRUE}, ev : EventCodes, sym : ItemSyms, ok : BOOLEAN]

\* a message: text that json.loads rejects, one item, or an array of items
Frames ==
    {[kind |-> "invalid", items |-> <<>>]}
        \cup {[kind |-> "single", items |-> <<i>>] : i \in Items}
        \cup UNION {[kind : {"array"}, items : [1..n -> Items]] : n \in 0..MaxFrame}

NoCast == [type |-> "none", sym |-> NoSym]

\* lines 201, 220, 238: the message type of an event code
message_type(code) ==
    CASE code = "Q" -> "quote"
      [] code = "T" -> "trade"
      [] code = "A" -> "aggregate"
      [] OTHER      -> "none"

\* lines 257-258: process_polygon_data logs an exception of its body
process_raises_through(err) == err
process_raises(err) == FALSE

\* process_polygon_data(item), lines 192-258; `fails` says whether the
\* broadcast_to_symbol call it makes raises
process_polygon_data(item, fails) ==
    IF ~item.dict
    THEN [cast |-> NoCast, raised |-> process_raises(TRUE)]
    ELSE IF item.sym \in {NoSym, ""}
    THEN [cast |-> NoCast, raised |-> FALSE]
    ELSE IF message_type(item.ev) = "none"
    THEN [cast |-> NoCast, raised |-> FALSE]
    ELSE IF ~item.ok
    THEN [cast |-> NoCast, raised |-> process_raises(TRUE)]
    ELSE [cast   |-> [type |-> message_type(item.ev), sym |-> item.sym],
          raised |-> process_raises(fails)]

\* handle_polygon_message, lines 179-187: the message is parsed and its
\* first item is reached
HandleMessage(frame) ==
    /\ pm.pc \in {"idle", "done"}
    /\ pm' = [pc |-> IF frame.items = <<>> THEN "done" ELSE "items",
              frame |-> frame, idx |-> 1, casts |-> <<>>, aborted |-> FALSE]
    /\ UNCHANGED <<connections, subscribed_symbols, polygon_ws, authed, conn_pc,
                   resub, sleep_left, sleep_in_conn, bc, sink_pc, sink_sym,
                   alive, send_ok, out, sub_count, emptied_by_bcast, bres,
                   fail_pending, waited, retry_gap, shut>>
    /\ UNCHANGED <<rlvars, psvars>>

\* lines 184-190: process_polygon_data runs on the item reached; an
\* exception it lets through ends the loop in the except clause of line 189
ProcessItem(fails) ==
    /\ pm.pc = "items"
    /\ LET r     == process_polygon_data(pm.frame.items[pm.idx], fails)
           casts == IF r.cast = NoCast THEN pm.casts ELSE Append(pm.casts, r.cast)
           last  == pm.idx = Len(pm.frame.items)
       IN  pm' = [pm EXCEPT !.casts = casts,
                            !.idx = IF r.raised \/ last THEN @ ELSE @ + 1,
                            !.aborted = r.raised,
                            !.pc = IF r.raised \/ last THEN "done" ELSE "items"]
    /\ UNCHANGED <<connections, subscribed_symbols, polygon_ws, authed, conn_pc,
                   resub, sleep_left, sleep_in_conn, bc, sink_pc, sink_sym,
                   alive, send_ok, out, sub_count, emptied_by_bcast, bres,
                   fail_pending, waited, retry_gap, shut>>
    /\ UNCHANGED <<rlvars, psvars>>

\* the receive loop hands over one message after the other
NextDispatch ==
    \/ \E frame \in Frames : HandleMessage(frame)
    \/ \E fails \in BOOLEAN : ProcessItem(fails)

----------------------------------------------------------------------------
(* WebSocketManager.disconnect_all, called by the shutdown part of lifespan *)
(* (app.py lines 49-52).  The call is suspended in "await websocket.close()"*)
(* of one sink after the other and at last in "await polygon_ws.close()".   *)

\* the sinks whose handlers are followed next to the shutdown
ShutSinks == {SinkOrder[1], SinkOrder[2]}

\* the orders in which the for loop of line 69 can meet the keys S (the
\* insertion order of the dict is not kept in `connections`)
Orders(S) ==
    {o \in [1..Cardinality(S) -> S] :
        \A i, j \in 1..Cardinality(S) : o[i] = o[j] => i = j}

\* lines 69-70: the loops run on to the next sink, over the symbols `ord`
RECURSIVE FirstWithSinks(_, _)
FirstWithSinks(ord, seen) ==
    IF ord = <<>> THEN [sym |-> NoSym, visited |-> seen]
    ELSE IF connections[Head(ord)] # <<>>
    THEN [sym |-> Head(ord), visited |-> seen \cup {Head(ord)}]
    ELSE FirstWithSinks(Tail(ord), seen \cup {Head(ord)})

\* the list object the for loop of line 70 iterates
ShutList == IF shut.attached THEN connections[shut.sym] ELSE <<>>

\* the sinks in the registry
AllRegistered == UNION {Range(connections[y]) : y \in DOMAIN connections}

\* lines 69-80 from the for loop of line 69 on, with the sinks `closed` so
\* far: the call suspends on the close of the next sink, or clears the
\* registry and the subscribed set and suspends on the close of polygon_ws
\* (if there is one)
ShutRunsOn(rec, closed) ==
    \E ord \in Orders(DOMAIN connections \ rec.visited) :
        LET f == FirstWithSinks(ord, rec.visited)
        IN  IF f.sym # NoSym
            THEN /\ shut' = [rec EXCEPT !.pc = "closing", !.visited = f.visited,
                                        !.sym = f.sym, !.idx = 1,
                                        !.cur = connections[f.sym][1],
                                        !.attached = TRUE, !.closed = closed]
                 /\ UNCHANGED <<connections, subscribed_symbols, sub_count,
                                emptied_by_bcast>>
            ELSE /\ shut' = [rec EXCEPT !.pc = IF polygon_ws = "none" THEN "done"
                                               ELSE "upstream",
                                        !.visited = f.visited, !.sym = NoSym,
                                        !.cur = NoSym, !.attached = FALSE,
                                        !.closed = closed, !.target = TRUE]
                 /\ connections' = <<>>
                 /\ subscribed_symbols' = {}
                 /\ sub_count' = [y \in Symbols |-> 0]
                 /\ emptied_by_bcast' = {}

\* lifespan, lines 49-52: disconnect_all is called
DisconnectAllStart ==
    /\ shut.pc = "idle"
    /\ ShutRunsOn([pc |-> "idle", size |-> Cardinality(DOMAIN connections),
                   visited |-> {}, sym |-> NoSym, idx |-> 0, cur |-> NoSym,
                   attached |-> FALSE, closed |-> {}, target |-> FALSE,
                   start |-> AllRegistered], {})
    /\ out' = NoFrame
    /\ bres' = NoRes
    /\ retry_gap' = NoGap
    /\ UNCHANGED <<polygon_ws, authed, conn_pc, resub, sleep_left, sleep_in_conn,
                   bc, sink_pc, sink_sym, alive, send_ok, fail_pending, waited,
                   pm>>
    /\ UNCHANGED <<rlvars, psvars>>

\* lines 70-74: websocket.close() of the sink returns or raises; the inner
\* loop goes on in the list, or the outer loop asks the dict for its next
\* item, which raises RuntimeError when the dict has changed its size
DisconnectAllCloseDone ==
    /\ shut.pc = "closing"
    /\ LET closed == shut.closed \cup {shut.cur}
           i      == shut.idx + 1
       IN  IF i <= Len(ShutList)
           THEN /\ shut' = [shut EXCEPT !.idx = i, !.cur = ShutList[i],
                                        !.closed = closed]
                /\ UNCHANGED <<connections, subscribed_symbols, sub_count,
                               emptied_by_bcast>>
           ELSE IF Cardinality(DOMAIN connections) # shut.size
           THEN /\ shut' = [shut EXCEPT !.pc = "raised", !.closed = closed,
                                        !.attached = FALSE]
                /\ UNCHANGED <<connections, subscribed_symbols, sub_count,
                               emptied_by_bcast>>
           ELSE ShutRunsOn(shut, closed)
    /\ alive' = [alive EXCEPT ![shut.cur] = FALSE]
    /\ out' = NoFrame
    /\ bres' = NoRes
    /\ retry_gap' = NoGap
    /\ UNCHANGED <<polygon_ws, authed, conn_pc, resub, sleep_left, sleep_in_conn,
                   bc, sink_pc, sink_sym, send_ok, fail_pending, waited, pm>>
    /\ UNCHANGED <<rlvars, psvars>>

\* lines 79-80: polygon_ws.close() returns; it has closed the connection
\* object that self.polygon_ws named when line 80 was reached, which is no
\* longer the one in use when the connector has connected again since
DisconnectAllUpstreamClosed ==
    /\ shut.pc = "upstream"
    /\ shut' = [shut EXCEPT !.pc = "done"]
    /\ IF shut.target /\ ws_is_open
       THEN /\ polygon_ws' = "closed_ok"
            /\ authed' = FALSE
            /\ send_ok' = BrokenSends
            /\ sub_count' = [y \in Symbols |-> 0]
       ELSE UNCHANGED <<polygon_ws, authed, send_ok, sub_count>>
    /\ out' = NoFrame
    /\ bres' = NoRes
    /\ retry_gap' = NoGap
    /\ UNCHANGED <<connections, subscribed_symbols, conn_pc, resub, sleep_left,
                   sleep_in_conn, bc, sink_pc, sink_sym, alive, emptied_by_bcast,
                   fail_pending, waited, pm>>
    /\ UNCHANGED <<rlvars, psvars>>

\* the handlers of the sinks; the server accepts no connection once the
\* shutdown has begun
ShutSinkStep ==
    \E s \in ShutSinks :
        \/ shut.pc = "idle" /\ \E sym \in Symbols : SinkConnect(s, sym)
        \/ SinkSubResume(s)
        \/ SinkInitialData(s)
        \/ SinkDies(s)
        \/ SinkDisconnect(s)
        \/ SinkUnsubResume(s)

\* the connector loop without inbound frames
ShutConnectorStep ==
    \/ ConnOpened
    \/ ConnFailed
    \/ AuthSuccess
    \/ AuthFailure
    \/ AuthError
    \/ AuthClosed
    \/ ResubResume
    \/ ListenClosedOK
    \/ ListenClosedErr
    \/ Wake
    \/ Tick

ShutdownStep ==
    \/ DisconnectAllStart
    \/ DisconnectAllCloseDone
    \/ DisconnectAllUpstreamClosed

NextShutdown ==
    ShutSinkStep \/ ShutConnectorStep \/ ShutdownStep \/ Environment

----------------------------------------------------------------------------
(* services/polygon_service.py, utils/cache_manager.py and the pull         *)
(* endpoints of app.py: the quote path.  The RateLimiter is driven by       *)
(* SpecRL; here a pull endpoint takes the value is_allowed returns as an    *)
(* input.  Prices are left out of a quote: only its symbol and its          *)
(* timestamp are kept.                                                      *)

\* the instants at which the service is observed: around the staleness
\* bound of rank 7 (30 seconds), all within the bound of rank 1
TimePoints == {0, 30, 31}

\* the values of the query parameter ?tier=
TierNames == {"freemium", "market_hours_pro", "sector_specialist",
              "weekend_warrior", "dark_pool_insider", "algorithmic_trader",
              "institutional_elite", "Institutional_Elite", "platinum"}

\* the tiers whose requests are followed into the service
PSTiers == {FREEMIUM, INSTITUTIONAL_ELITE}

\* the symbol lists of the batch requests: the batch limit of rank 1 is 5
MaxBatch == 5
Batches == {<<>>, <<"X">>, <<"X", "Y">>, <<"X", "X">>,
            <<"X", "Y", "X", "Y", "X">>, <<"X", "Y", "X", "Y", "X", "Y">>}

\* str.lower()
lower(name) == IF name = "Institutional_Elite" THEN "institutional_elite"
               ELSE name

\* get_user_tier: tier_mapping.get(tier.lower(), DataTier.FREEMIUM)
tier_mapping ==
    [n \in {"freemium", "market_hours_pro", "sector_specialist",
            "weekend_warrior", "dark_pool_insider", "algorithmic_trader",
            "institutional_elite"} |->
        CASE n = "freemium"            -> FREEMIUM
          [] n = "market_hours_pro"    -> MARKET_HOURS_PRO
          [] n = "sector_specialist"   -> SECTOR_SPECIALIST
          [] n = "weekend_warrior"     -> WEEKEND_WARRIOR
          [] n = "dark_pool_insider"   -> DARK_POOL_INSIDER
          [] n = "algorithmic_trader"  -> ALGORITHMIC_TRADER
          [] n = "institutional_elite" -> INSTITUTIONAL_ELITE]

get_user_tier_to_elite(name) ==
    IF lower(name) \in DOMAIN tier_mapping THEN tier_mapping[lower(name)]
    ELSE INSTITUTIONAL_ELITE
get_user_tier(name) ==
    IF lower(name) \in DOMAIN tier_mapping THEN tier_mapping[lower(name)]
    ELSE FREEMIUM

\* cache_key = f"quote:{symbol}"
cache_key(sym) == "quote:" \o sym

\* datetime.isoformat / datetime.fromisoformat
isoformat(t) == <<"iso", t>>
fromisoformat(str) == str[2]

\* json.dumps(value, default=str) / json.loads
json_dumps(value) == <<"json", value>>
json_loads(raw) == raw[2]

\* the fields of the dataclass RealTimeQuote (without the prices)
QuoteFields == {"symbol", "timestamp"}
RealTimeQuote(sym, t) == [symbol |-> sym, timestamp |-> t]
NoQuote == RealTimeQuote(NoSym, NoTime)

\* RealTimeQuote.to_dict: asdict plus the two derived properties
to_dict(quote) ==
    [symbol |-> quote.symbol, timestamp |-> isoformat(quote.timestamp),
     spread |-> "derived", midpoint |-> "derived"]

\* RealTimeQuote.from_dict: cls(**data) raises TypeError on a key that is
\* not a field of the dataclass
from_dict(dict) ==
    IF DOMAIN dict \subseteq QuoteFields
    THEN [ok |-> TRUE,
          quote |-> RealTimeQuote(dict.symbol, fromisoformat(dict.timestamp))]
    ELSE [ok |-> FALSE, quote |-> NoQuote]

\* the store without the key / with the key set
Drop(f, key) == [k \in DOMAIN f \ {key} |-> f[k]]
Put(f, key, v) == [k \in DOMAIN f \cup {key} |-> IF k = key THEN v ELSE f[k]]

\* a call of the Redis client raises: the server cannot be reached
StoreRaises == redis_client = "Redis" /\ ~redis_up

\* MockRedis.get, lines 188-195: "datetime.now() > self.expires[key]".  What
\* a Redis server does with an entry at the very instant of its expiry is
\* not in this repository: `edge` says whether it counts it as expired.
redis_get(d, e, key, edge) ==
    IF key \in DOMAIN e /\ (clock > e[key] \/ (edge /\ clock = e[key]))
    THEN [found |-> FALSE, raw |-> <<>>, d |-> Drop(d, key), e |-> Drop(e, key)]
    ELSE [found |-> key \in DOMAIN d,
          raw   |-> IF key \in DOMAIN d THEN d[key] ELSE <<>>,
          d     |-> d, e |-> e]

\* the outcomes of `edge` for the client in use
Edges == IF redis_client = "Redis" THEN BOOLEAN ELSE {FALSE}

\* MockRedis.setex, lines 197-199
redis_setex(d, e, key, ttl, raw) ==
    [d |-> Put(d, key, raw), e |-> Put(e, key, clock + ttl)]

\* MockRedis.delete, lines 204-206
redis_delete(d, e, key) == [d |-> Drop(d, key), e |-> Drop(e, key)]

\* MockRedis.keys with the pattern "quote:*": no expiry check
redis_keys(d) == DOMAIN d

\* the "except Exception" clause of every CacheManager method: the
\* exception of the store call is logged, not raised
cache_raises_through(store_raises) == store_raises
cache_raises(store_raises) == FALSE

\* CacheManager.get, lines 32-41
cache_get(d, e, key, edge) ==
    IF StoreRaises
    THEN [found |-> FALSE, failed |-> TRUE, raised |-> cache_raises(TRUE),
          raw |-> <<>>, d |-> d, e |-> e]
    ELSE LET r == redis_get(d, e, key, edge)
         IN  [found |-> r.found, failed |-> FALSE, raised |-> cache_raises(FALSE),
              raw |-> r.raw, d |-> r.d, e |-> r.e]

\* CacheManager.set, lines 43-50
cache_set(d, e, key, value, ttl) ==
    IF StoreRaises
    THEN [failed |-> TRUE, raised |-> cache_raises(TRUE), d |-> d, e |-> e]
    ELSE LET r == redis_setex(d, e, key, ttl, json_dumps(value))
         IN  [failed |-> FALSE, raised |-> cache_raises(FALSE), d |-> r.d, e |-> r.e]

\* CacheManager.delete, lines 52-58
cache_delete(d, e, key) ==
    IF StoreRaises
    THEN [failed |-> TRUE, raised |-> cache_raises(TRUE), d |-> d, e |-> e]
    ELSE LET r == redis_delete(d, e, key)
         IN  [failed |-> FALSE, raised |-> cache_raises(FALSE), d |-> r.d, e |-> r.e]

\* CacheManager.get_keys_pattern, lines 94-100
get_keys_pattern(d) ==
    IF StoreRaises
    THEN [failed |-> TRUE, raised |-> cache_raises(TRUE), keys |-> {}]
    ELSE [failed |-> FALSE, raised |-> cache_raises(FALSE), keys |-> redis_keys(d)]

\* get_real_time_quote, line 117: "if cache_age < max_age"
CacheFreshInclusive(cache_age, max_age) == cache_age <= max_age
CacheFresh(cache_age, max_age) == cache_age < max_age

\* get_real_time_quote, lines 105-121, on the store (d, e): the cached quote
\* is returned ("quote"), the call raises ("raise") or goes on to the
\* upstream ("fetch")
lookup(d, e, sym, tier, edge) ==
    LET g         == cache_get(d, e, cache_key(sym), edge)
        dict      == json_loads(g.raw)
        cache_age == clock - fromisoformat(dict.timestamp)
        max_age   == get_tier_config(tier).real_time_delay
        fresh     == g.found /\ CacheFresh(cache_age, max_age)
        parsed    == from_dict(dict)
    IN  [out       |-> IF g.raised THEN "raise"
                       ELSE IF ~fresh THEN "fetch"
                       ELSE IF parsed.ok THEN "quote" ELSE "raise",
         quote     |-> IF ~g.raised /\ fresh /\ parsed.ok THEN parsed.quote
                       ELSE NoQuote,
         got       |-> IF g.failed THEN "failed"
                       ELSE IF g.found THEN "hit" ELSE "miss",
         cache_age |-> IF g.found THEN cache_age ELSE NoTime,
         d         |-> g.d,
         e         |-> g.e]

\* a quote stored with the ttl of the historical data
quote_ttl_historical(tier_config) == tier_config.historical_cache_ttl

\* line 142: "ttl = tier_config.real_time_delay"
quote_ttl(tier_config) == tier_config.real_time_delay

\* a status other than 200 that is taken for a success
upstream_failed_ignored(ok) == FALSE

\* lines 66 and 94-96, 128 and 147-149: "if response.status == 200: ...
\* else: raise Exception(...)"
upstream_failed(ok) == ~ok

\* get_real_time_quote, lines 128-149, on the store (d, e): the upstream has
\* answered with status 200 (ok) or with another status
fetched(d, e, sym, tier, ok) ==
    LET quote == RealTimeQuote(sym, clock)
        ttl   == quote_ttl(get_tier_config(tier))
        w     == cache_set(d, e, cache_key(sym), to_dict(quote), ttl)
    IN  IF upstream_failed(ok)
        THEN [out |-> "raise", quote |-> NoQuote, wrote |-> FALSE,
              failed |-> FALSE, d |-> d, e |-> e]
        ELSE [out |-> IF w.raised THEN "raise" ELSE "quote",
              quote |-> IF w.raised THEN NoQuote ELSE quote,
              wrote |-> ~w.failed, failed |-> w.failed, d |-> w.d, e |-> w.e]

\* per symbol counters of a batch
ZeroCount == [y \in Symbols |-> 0]

NoCfg == [real_time_delay |-> 0, historical_cache_ttl |-> 0, news_cache_ttl |-> 0,
          rate_limit_per_minute |-> 0, websocket_enabled |-> FALSE,
          batch_size_limit |-> 0]

\* no request is awaited / no batch is running
NoReq == [sym |-> NoSym]
NoBatch == [active |-> FALSE]

\* the record of a step: which operation ran (op) for which caller (origin),
\* whether is_allowed had returned true for it (limited), what the cache
\* read gave (got, entry_age, entry_ttl, cache_age), whether the step sent a
\* request to the upstream (fetch), wrote the cache (wrote), had a store
\* call fail (store_failed), how many of the n symbols of a batch got a
\* task (tasks), what the upstream answered (upstream), and what the
\* operation returned (result, age, results)
BlankEv ==
        [op |-> "none", origin |-> "none", name |-> "", sym |-> NoSym,
         tier |-> 0, cfg |-> NoCfg, limited |-> FALSE, got |-> "none",
         entry_age |-> NoTime, entry_ttl |-> NoTime, cache_age |-> NoTime,
         since_fetch |-> NoTime, fetch |-> FALSE, wrote |-> FALSE,
         store_failed |-> FALSE, result |-> "none", age |-> NoTime,
         n |-> 0, tasks |-> 0, results |-> ZeroCount, succeeded |-> ZeroCount, keys |-> {},
         value |-> "none", set_value |-> "none", replaced |-> FALSE,
         upstream |-> "none"]

\* no operation ran in the step
NoEv == [op |-> "none"]

\* the record of the last step
Last == IF ev = NoEv THEN BlankEv ELSE ev

\* the store holds an entry under the key whose ttl has not elapsed
HasTimeLeft(key) ==
    key \in DOMAIN data /\ key \in DOMAIN expires /\ clock < expires[key]

\* the store after a step, with the time and the ttl of the set that wrote
\* each of its entries
StoreStep(d, e, written, ttl) ==
    /\ data' = d
    /\ expires' = e
    /\ set_at' = [k \in DOMAIN d |-> IF k \in written THEN clock ELSE set_at[k]]
    /\ set_ttl' = [k \in DOMAIN d |-> IF k \in written THEN ttl ELSE set_ttl[k]]
    /\ set_by' = [k \in DOMAIN d \cap DOMAIN set_by |-> set_by[k]]

\* PolygonDataService.get_real_time_quote, lines 102-127: up to the return
\* of the cached quote or the await of the upstream response
quote_request(name, sym, tier, origin, limited) ==
    /\ req = NoReq
    /\ \E edge \in Edges :
         LET r   == lookup(data, expires, sym, tier, edge)
             key == cache_key(sym)
         IN  /\ StoreStep(r.d, r.e, {}, 0)
             /\ req' = IF r.out = "fetch"
                       THEN [sym |-> sym, tier |-> tier, origin |-> origin,
                             limited |-> limited]
                       ELSE NoReq
             /\ ev' = [BlankEv EXCEPT
                         !.op = "quote", !.origin = origin, !.name = name,
                         !.sym = sym, !.tier = tier,
                         !.cfg = get_tier_config(tier), !.limited = limited,
                         !.got = r.got,
                         !.entry_age = IF r.got = "hit" THEN clock - set_at[key]
                                       ELSE NoTime,
                         !.entry_ttl = IF r.got = "hit" THEN set_ttl[key]
                                       ELSE NoTime,
                         !.cache_age = r.cache_age,
                         !.since_fetch = IF last_fetch[sym] = NoTime THEN NoTime
                                         ELSE clock - last_fetch[sym],
                         !.fetch = (r.out = "fetch"),
                         !.store_failed = (r.got = "failed"),
                         !.result = IF r.out = "fetch" THEN "pending" ELSE r.out,
                         !.age = IF r.out = "quote"
                                 THEN clock - r.quote.timestamp ELSE NoTime]
    /\ UNCHANGED <<clock, redis_client, redis_up, batch, last_fetch>>
    /\ UNCHANGED <<rlvars, wsvars>>

\* app.py lines 158-159 and 184-185: is_allowed has returned false and the
\* endpoint answers 429 (turned into 500 by its own except clause)
HttpDenied(op) ==
    /\ ev' = [BlankEv EXCEPT !.op = op, !.origin = "http", !.result = "rejected"]
    /\ UNCHANGED <<clock, redis_client, redis_up, data, expires, req, batch,
                   set_at, set_ttl, set_by, last_fetch>>
    /\ UNCHANGED <<rlvars, wsvars>>

\* app.py get_real_time_quote, lines 150-174: GET /api/quote/{symbol}?tier=
\* with is_allowed returning true
HttpQuote(name, sym) ==
    LET tier == get_user_tier(name)
    IN  /\ tier \in PSTiers
        /\ quote_request(name, sym, tier, "http", TRUE)

\* WebSocketManager.connect, lines 38-49: the initial quote of a new sink
WsInitialQuote(sym) ==
    quote_request("", sym, INSTITUTIONAL_ELITE, "ws", FALSE)

\* app.py cache_warming_task / cache_warming_for_symbols, lines 275 and 297
WarmQuote(sym) ==
    quote_request("", sym, FREEMIUM, "warm", FALSE)

\* get_real_time_quote, lines 127-153: the upstream answers the request
QuoteResponse(ok) ==
    /\ req # NoReq
    /\ LET f   == fetched(data, expires, req.sym, req.tier, ok)
           key == cache_key(req.sym)
           ttl == get_tier_config(req.tier).real_time_delay
       IN  /\ StoreStep(f.d, f.e, IF f.wrote THEN {key} ELSE {}, ttl)
           /\ ev' = [BlankEv EXCEPT
                       !.op = "response", !.origin = req.origin,
                       !.sym = req.sym, !.tier = req.tier,
                       !.cfg = get_tier_config(req.tier),
                       !.limited = req.limited, !.wrote = f.wrote,
                       !.upstream = IF ok THEN "ok" ELSE "error",
                       !.store_failed = f.failed, !.result = f.out,
                       !.age = IF f.out = "quote"
                               THEN clock - f.quote.timestamp ELSE NoTime]
    /\ last_fetch' = IF ok THEN [last_fetch EXCEPT ![req.sym] = clock]
                     ELSE last_fetch
    /\ req' = NoReq
    /\ UNCHANGED <<clock, redis_client, redis_up, batch>>
    /\ UNCHANGED <<rlvars, wsvars>>

\* get_batch_quotes, line 160: "if len(symbols) > tier_config.batch_size_limit"
BatchTooLargeInclusive(n, limit) == n >= limit
BatchTooLarge(n, limit) == n > limit

\* get_batch_quotes, lines 171-177: the result of a task is appended, its
\* exception is logged and the loop continues
collect_uncaught(results, sym, outcome) ==
    [results |-> IF outcome = "quote" THEN [results EXCEPT ![sym] = @ + 1]
                 ELSE results,
     raised  |-> outcome = "raise"]
collect(results, sym, outcome) ==
    [results |-> IF outcome = "quote" THEN [results EXCEPT ![sym] = @ + 1]
                 ELSE results,
     raised  |-> FALSE]

\* get_batch_quotes, lines 164-167: the tasks are created and run, in the
\* order of the list, up to their first suspension
RECURSIVE StartTasks(_, _, _, _, _)
StartTasks(symbols, tier, d, e, edge) ==
    IF symbols = <<>> THEN [tasks |-> <<>>, d |-> d, e |-> e]
    ELSE LET r    == lookup(d, e, Head(symbols), tier, edge)
             rest == StartTasks(Tail(symbols), tier, r.d, r.e, edge)
             task == [sym |-> Head(symbols),
                      st  |-> IF r.out = "fetch" THEN "fetching"
                              ELSE IF r.out = "quote" THEN "ok" ELSE "failed"]
         IN  [tasks |-> <<task>> \o rest.tasks, d |-> rest.d, e |-> rest.e]

\* the tasks of a batch that are in state st
TasksIn(tasks, st) == {i \in 1..Len(tasks) : tasks[i].st = st}

\* per symbol, the number of tasks whose lookup succeeded
Succeeded(tasks) ==
    [y \in Symbols |->
        Cardinality({i \in TasksIn(tasks, "ok") : tasks[i].sym = y})]

\* the as_completed loop over the tasks that are finished
RECURSIVE Collected(_, _, _)
Collected(tasks, i, acc) ==
    IF i > Len(tasks) \/ acc.raised THEN acc
    ELSE IF tasks[i].st = "fetching" THEN Collected(tasks, i + 1, acc)
    ELSE Collected(tasks, i + 1,
                   collect(acc.results, tasks[i].sym,
                           IF tasks[i].st = "ok" THEN "quote" ELSE "raise"))

\* PolygonDataService.get_batch_quotes, lines 155-179, called by the
\* endpoint after is_allowed has returned `limited`
batch_request(name, symbols, limited) ==
    LET tier  == get_user_tier(name)
        limit == get_tier_config(tier).batch_size_limit
        head  == [BlankEv EXCEPT !.op = "batch", !.origin = "batch", !.name = name,
                              !.tier = tier, !.cfg = get_tier_config(tier),
                              !.limited = limited, !.n = Len(symbols)]
    IN  /\ tier \in PSTiers
        /\ ~batch.active
        /\ IF BatchTooLarge(Len(symbols), limit)
           THEN /\ ev' = [head EXCEPT !.result = "too_large"]
                /\ UNCHANGED <<data, expires, set_at, set_ttl, set_by, batch>>
           ELSE \E edge \in Edges :
                  LET s    == StartTasks(symbols, tier, data, expires, edge)
                      c    == Collected(s.tasks, 1,
                                        [results |-> ZeroCount, raised |-> FALSE])
                      busy == TasksIn(s.tasks, "fetching") # {}
                  IN  /\ StoreStep(s.d, s.e, {}, 0)
                      /\ batch' = IF busy /\ ~c.raised
                                  THEN [active |-> TRUE, tier |-> tier,
                                        tasks |-> s.tasks,
                                        results |-> c.results]
                                  ELSE NoBatch
                      /\ ev' = [head EXCEPT
                                  !.fetch = busy,
                                  !.tasks = Len(s.tasks),
                                  !.result = IF c.raised THEN "raise"
                                             ELSE IF busy THEN "pending"
                                             ELSE "batch",
                                  !.results = c.results,
                                  !.succeeded = Succeeded(s.tasks)]
        /\ UNCHANGED <<clock, redis_client, redis_up, req, last_fetch>>
        /\ UNCHANGED <<rlvars, wsvars>>

\* app.py get_batch_quotes, lines 176-206: POST /api/batch-quotes with
\* is_allowed returning true
HttpBatch(name, symbols) == batch_request(name, symbols, TRUE)

\* the upstream answers the request of task i (the first waiting task of its
\* symbol); get_batch_quotes returns when it was the last one
BatchTaskResponse(i, ok) ==
    /\ batch.active
    /\ i \in TasksIn(batch.tasks, "fetching")
    /\ \A j \in TasksIn(batch.tasks, "fetching") :
          batch.tasks[j].sym = batch.tasks[i].sym => i <= j
    /\ LET sym   == batch.tasks[i].sym
           f     == fetched(data, expires, sym, batch.tier, ok)
           ttl   == get_tier_config(batch.tier).real_time_delay
           tasks == [batch.tasks EXCEPT
                       ![i].st = IF f.out = "quote" THEN "ok" ELSE "failed"]
           c     == collect(batch.results, sym, f.out)
           busy  == TasksIn(tasks, "fetching") # {}
       IN  /\ StoreStep(f.d, f.e, IF f.wrote THEN {cache_key(sym)} ELSE {}, ttl)
           /\ batch' = IF busy /\ ~c.raised
                       THEN [batch EXCEPT !.tasks = tasks, !.results = c.results]
                       ELSE NoBatch
           /\ ev' = [BlankEv EXCEPT
                       !.op = "task", !.origin = "batch", !.sym = sym,
                       !.tier = batch.tier,
                       !.cfg = get_tier_config(batch.tier), !.limited = TRUE,
                       !.n = Len(tasks), !.wrote = f.wrote,
                       !.upstream = IF ok THEN "ok" ELSE "error",
                       !.store_failed = f.failed,
                       !.age = IF f.out = "quote"
                               THEN clock - f.quote.timestamp ELSE NoTime,
                       !.result = IF c.raised THEN "raise"
                                  ELSE IF busy THEN "pending" ELSE "batch",
                       !.results = c.results,
                       !.succeeded = Succeeded(tasks)]
           /\ last_fetch' = IF ok THEN [last_fetch EXCEPT ![sym] = clock]
                            ELSE last_fetch
    /\ UNCHANGED <<clock, redis_client, redis_up, req>>
    /\ UNCHANGED <<rlvars, wsvars>>

\* CacheManager.delete(key) called on its own
CacheDelete(key) ==
    /\ LET r == cache_delete(data, expires, key)
       IN  /\ StoreStep(r.d, r.e, {}, 0)
           /\ ev' = [BlankEv EXCEPT !.op = "delete", !.store_failed = r.failed,
                                 !.result = IF r.raised THEN "raise" ELSE "none"]
    /\ UNCHANGED <<clock, redis_client, redis_up, req, batch, last_fetch>>
    /\ UNCHANGED <<rlvars, wsvars>>

\* CacheManager.get_keys_pattern("quote:*") called on its own
CacheKeys ==
    /\ LET r == get_keys_pattern(data)
       IN  ev' = [BlankEv EXCEPT !.op = "keys", !.store_failed = r.failed,
                              !.keys = r.keys,
                              !.result = IF r.raised THEN "raise" ELSE "none"]
    /\ UNCHANGED <<clock, redis_client, redis_up, data, expires, req, batch,
                   set_at, set_ttl, set_by, last_fetch>>
    /\ UNCHANGED <<rlvars, wsvars>>

\* time passes
AdvancePS ==
    /\ \E t \in TimePoints : t > clock /\ clock' = t
    /\ ev' = NoEv
    /\ UNCHANGED <<redis_client, redis_up, data, expires, req, batch, set_at,
                   set_ttl, set_by, last_fetch>>
    /\ UNCHANGED <<rlvars, wsvars>>

\* the Redis server becomes unreachable, or reachable again
RedisDown ==
    /\ redis_client = "Redis" /\ redis_up
    /\ redis_up' = FALSE
    /\ ev' = NoEv
    /\ UNCHANGED <<clock, redis_client, data, expires, req, batch, set_at,
                   set_ttl, set_by, last_fetch>>
    /\ UNCHANGED <<rlvars, wsvars>>

RedisUp ==
    /\ redis_client = "Redis" /\ ~redis_up
    /\ redis_up' = TRUE
    /\ ev' = NoEv
    /\ UNCHANGED <<clock, redis_client, data, expires, req, batch, set_at,
                   set_ttl, set_by, last_fetch>>
    /\ UNCHANGED <<rlvars, wsvars>>

\* the service and the cache after construction (CacheManager.__init__ picks
\* the client: Redis when the ping succeeds, MockRedis when it fails)
InitPS ==
    /\ clock = 0
    /\ redis_up = TRUE
    /\ data = <<>>
    /\ expires = <<>>
    /\ req = NoReq
    /\ batch = NoBatch
    /\ ev = NoEv
    /\ set_at = <<>>
    /\ set_ttl = <<>>
    /\ set_by = <<>>
    /\ last_fetch = [y \in Symbols |-> NoTime]

QuoteRequest ==
    \/ HttpDenied("quote")
    \/ \E name \in TierNames, sym \in Symbols : HttpQuote(name, sym)
    \/ \E sym \in Symbols : WsInitialQuote(sym)
    \/ \E sym \in Symbols : WarmQuote(sym)

CacheCall ==
    \/ \E sym \in Symbols : CacheDelete(cache_key(sym))
    \/ CacheKeys

\* single quote requests, one followed at a time
NextPS ==
    \/ QuoteRequest
    \/ \E ok \in BOOLEAN : QuoteResponse(ok)
    \/ CacheCall
    \/ AdvancePS
    \/ RedisDown
    \/ RedisUp

\* batch requests, one followed at a time
NextBatch ==
    \/ HttpDenied("batch")
    \/ \E name \in TierNames, symbols \in Batches : HttpBatch(name, symbols)
    \/ \E i \in 1..MaxBatch, ok \in BOOLEAN : BatchTaskResponse(i, ok)
    \/ AdvancePS

----------------------------------------------------------------------------
(* utils/cache_manager.py: CacheManager.set and CacheManager.get called on  *)
(* their own                                                                *)

\* the instants, the payloads and the ttls of the calls
CacheTimes == {0, 30, 60, 90}
CacheValues == {"v1", "v2"}
CacheTtls == {30, 60}
CacheKey == cache_key("X")

\* CacheManager.set(key, value, ttl), lines 43-50
CacheSet(key, value, ttl) ==
    /\ LET r == cache_set(data, expires, key, value, ttl)
       IN  /\ data' = r.d
           /\ expires' = r.e
           /\ set_at' = IF r.failed THEN set_at ELSE Put(set_at, key, clock)
           /\ set_ttl' = IF r.failed THEN set_ttl ELSE Put(set_ttl, key, ttl)
           /\ set_by' = IF r.failed THEN set_by
                        ELSE Put(set_by, key, [value    |-> value,
                                               replaced |-> HasTimeLeft(key)])
           /\ ev' = [BlankEv EXCEPT !.op = "set", !.wrote = ~r.failed,
                                 !.store_failed = r.failed,
                                 !.set_value = value, !.entry_ttl = ttl,
                                 !.replaced = HasTimeLeft(key),
                                 !.result = IF r.raised THEN "raise" ELSE "none"]
    /\ UNCHANGED <<clock, redis_client, redis_up, req, batch, last_fetch>>
    /\ UNCHANGED <<rlvars, wsvars>>

\* CacheManager.get(key), lines 32-41: the deserialized value, or None
CacheGet(key) ==
    /\ \E edge \in Edges :
         LET r     == cache_get(data, expires, key, edge)
             known == key \in DOMAIN set_at
         IN  /\ StoreStep(r.d, r.e, {}, 0)
             /\ ev' = [BlankEv EXCEPT
                         !.op = "get", !.store_failed = r.failed,
                         !.got = IF r.failed THEN "failed"
                                 ELSE IF r.found THEN "hit" ELSE "miss",
                         !.value = IF r.found THEN json_loads(r.raw) ELSE "none",
                         !.entry_age = IF known THEN clock - set_at[key] ELSE NoTime,
                         !.entry_ttl = IF known THEN set_ttl[key] ELSE NoTime,
                         !.set_value = IF known THEN set_by[key].value ELSE "none",
                         !.replaced = known /\ set_by[key].replaced,
                         !.result = IF r.raised THEN "raise" ELSE "none"]
    /\ UNCHANGED <<clock, redis_client, redis_up, req, batch, last_fetch>>
    /\ UNCHANGED <<rlvars, wsvars>>

\* time passes between two calls of the cache
AdvanceCache ==
    /\ \E t \in CacheTimes : t > clock /\ clock' = t
    /\ ev' = NoEv
    /\ UNCHANGED <<redis_client, redis_up, data, expires, req, batch, set_at,
                   set_ttl, set_by, last_fetch>>
    /\ UNCHANGED <<rlvars, wsvars>>

NextCache ==
    \/ \E v \in CacheValues, ttl \in CacheTtls : CacheSet(CacheKey, v, ttl)
    \/ CacheGet(CacheKey)
    \/ AdvanceCache

----------------------------------------------------------------------------
(* utils/cache_manager.py: CacheManager.flush_pattern *)

\* the keys the store is filled with and the patterns it is flushed with
FlushKeys == {"quote:X", "quote:Y", "trade:X"}
FlushPatterns == {"quote:*", "trade:*", "*", "news:*"}

\* fnmatch.fnmatch(key, pattern) on these keys and patterns
fnmatch(key, pattern) ==
    CASE pattern = "*"       -> TRUE
      [] pattern = "quote:*" -> key \in {"quote:X", "quote:Y"}
      [] pattern = "trade:*" -> key \in {"trade:X"}
      [] OTHER               -> FALSE

\* MockRedis.keys(pattern), lines 222-224 (Redis.keys likewise): the keys
\* of data that match, expired or not
redis_keys_matching(d, pattern) == {k \in DOMAIN d : fnmatch(k, pattern)}

\* redis_client.delete(*keys): Redis.delete takes any number of names;
\* MockRedis.delete(self, key), lines 204-206, takes exactly one, so the
\* call with two or more keys raises TypeError before anything is removed
redis_delete_keys(d, e, keys) ==
    IF redis_client = "MockRedis" /\ Cardinality(keys) # 1
    THEN [raised |-> TRUE, d |-> d, e |-> e]
    ELSE [raised |-> FALSE,
          d |-> [k \in DOMAIN d \ keys |-> d[k]],
          e |-> [k \in DOMAIN e \ keys |-> e[k]]]

\* CacheManager.flush_pattern(pattern), lines 102-110: the exception of the
\* delete is logged by the except clause
FlushPattern(pattern) ==
    /\ LET keys == redis_keys_matching(data, pattern)
           r    == IF keys = {} THEN [raised |-> FALSE, d |-> data, e |-> expires]
                   ELSE redis_delete_keys(data, expires, keys)
       IN  /\ StoreStep(r.d, r.e, {}, 0)
           /\ ev' = [BlankEv EXCEPT !.op = "flush", !.name = pattern,
                                 !.keys = keys, !.n = Cardinality(keys),
                                 !.store_failed = r.raised,
                                 !.result = "none"]
    /\ UNCHANGED <<clock, redis_client, redis_up, req, batch, last_fetch>>
    /\ UNCHANGED <<rlvars, wsvars>>

NextFlush ==
    \/ \E key \in FlushKeys : CacheSet(key, "v1", 60)
    \/ \E pattern \in FlushPatterns : FlushPattern(pattern)
    \/ \E key \in FlushKeys : CacheGet(key)
    \/ AdvanceCache

----------------------------------------------------------------------------
(* services/polygon_service.py: get_market_data.  Of a bar only its symbol  *)
(* and its timestamp are kept.                                              *)

\* the instants around the historical ttl of rank 7 (300 seconds) and of
\* rank 1 (86400 seconds)
MarketTimes == {0, 300, 301, 86400}

\* cache_key = f"market_data:{symbol}:{timespan}:{limit}", the defaults
market_key(sym) == "market_data:" \o sym \o ":day:100"

MarketFields == {"symbol", "timestamp"}
MarketData(sym, t) == [symbol |-> sym, timestamp |-> t]

\* MarketData.to_dict: asdict with the timestamp as a string
market_to_dict(bar) ==
    [symbol |-> bar.symbol, timestamp |-> isoformat(bar.timestamp)]

\* MarketData.from_dict: cls(**data) raises TypeError on a key that is not a
\* field of the dataclass
market_from_dict(dict) ==
    IF DOMAIN dict \subseteq MarketFields
    THEN [ok |-> TRUE,
          bar |-> MarketData(dict.symbol, fromisoformat(dict.timestamp))]
    ELSE [ok |-> FALSE, bar |-> MarketData(NoSym, NoTime)]

\* line 85: the ttl of the entry is the historical ttl of the caller's tier
historical_ttl_of_quotes(tier_config) == tier_config.real_time_delay
historical_ttl(tier_config) == tier_config.historical_cache_ttl

\* what the upstream answers: bars, no bars, or a status other than 200
MarketAnswers == {"results", "empty", "error"}

\* get_market_data, lines 41-64: the cached bars are returned, or the
\* request goes to the upstream; is_allowed has returned `limited`
market_request(sym, tier, limited) ==
    /\ req = NoReq
    /\ \E edge \in Edges :
         LET key    == market_key(sym)
             c      == cache_get(data, expires, key, edge)
             cached == IF c.found THEN json_loads(c.raw) ELSE <<>>
             hit    == cached # <<>>
             bars   == [i \in 1..Len(cached) |-> market_from_dict(cached[i])]
             allok  == \A i \in 1..Len(cached) : bars[i].ok
             known  == key \in DOMAIN set_at
         IN  /\ StoreStep(c.d, c.e, {}, 0)
             /\ req' = IF hit THEN NoReq
                       ELSE [sym |-> sym, tier |-> tier, origin |-> "market_data",
                             limited |-> limited]
             /\ ev' = [BlankEv EXCEPT
                         !.op = "market_data", !.sym = sym, !.tier = tier,
                         !.limited = limited,
                         !.got = IF c.failed THEN "failed"
                                 ELSE IF hit THEN "hit" ELSE "miss",
                         !.entry_age = IF known THEN clock - set_at[key] ELSE NoTime,
                         !.entry_ttl = IF known THEN set_ttl[key] ELSE NoTime,
                         !.store_failed = c.failed,
                         !.fetch = ~hit,
                         !.n = IF hit /\ allok THEN Len(cached) ELSE 0,
                         !.result = IF ~hit THEN "pending"
                                    ELSE IF allok THEN "data" ELSE "raise"]
    /\ UNCHANGED <<clock, redis_client, redis_up, batch, last_fetch>>
    /\ UNCHANGED <<rlvars, wsvars>>

\* app.py get_market_data, lines 113-148: GET /api/market-data/{symbol} with
\* is_allowed returning true
GetMarketData(sym, tier) == market_request(sym, tier, TRUE)

\* get_market_data, lines 65-100: the upstream answers
MarketDataResponse(answer) ==
    /\ req # NoReq
    /\ LET key   == market_key(req.sym)
           bars  == <<MarketData(req.sym, 0)>>
           ttl   == historical_ttl(get_tier_config(req.tier))
           value == [i \in 1..Len(bars) |-> market_to_dict(bars[i])]
           w     == IF answer = "results"
                    THEN cache_set(data, expires, key, value, ttl)
                    ELSE [failed |-> FALSE, raised |-> FALSE,
                          d |-> data, e |-> expires]
           wrote == answer = "results" /\ ~w.failed
           error == upstream_failed(answer # "error")
       IN  /\ StoreStep(w.d, w.e, IF wrote THEN {key} ELSE {}, ttl)
           /\ ev' = [BlankEv EXCEPT
                       !.op = "market_response", !.sym = req.sym,
                       !.tier = req.tier, !.wrote = wrote,
                       !.upstream = IF answer = "error" THEN "error" ELSE "ok",
                       !.store_failed = w.failed,
                       !.n = IF answer = "results" THEN Len(bars) ELSE 0,
                       !.result = IF error \/ w.raised THEN "raise"
                                  ELSE IF answer = "results" THEN "data"
                                  ELSE "empty"]
    /\ req' = NoReq
    /\ UNCHANGED <<clock, redis_client, redis_up, batch, last_fetch>>
    /\ UNCHANGED <<rlvars, wsvars>>

\* time passes
AdvanceMarket ==
    /\ \E t \in MarketTimes : t > clock /\ clock' = t
    /\ ev' = NoEv
    /\ UNCHANGED <<redis_client, redis_up, data, expires, req, batch, set_at,
                   set_ttl, set_by, last_fetch>>
    /\ UNCHANGED <<rlvars, wsvars>>

\* market data requests, one followed at a time
NextMarket ==
    \/ \E tier \in PSTiers : GetMarketData("X", tier)
    \/ \E answer \in MarketAnswers : MarketDataResponse(answer)
    \/ AdvanceMarket
    \/ RedisDown
    \/ RedisUp

----------------------------------------------------------------------------
(* app.py: the three pull endpoints.  `allowed` is what is_allowed has      *)
(* returned to the endpoint.                                                *)

\* an endpoint that goes on after a denial
rejects_never(allowed) == FALSE

\* lines 123-124, 158-159, 184-185: "if not rate_limiter.is_allowed(...):
\* raise HTTPException(status_code=429, ...)"
rejects(allowed) == ~allowed

\* the tier names the endpoints are called with
PullNames == {"freemium", "institutional_elite"}

\* the symbol lists the batch endpoint is called with
PullBatches == {<<"X">>, <<"X", "X">>, <<"X", "Y">>}

\* GET /api/quote/{symbol}, lines 150-174
QuoteEndpoint(name, sym, allowed) ==
    IF rejects(allowed) THEN HttpDenied("quote")
    ELSE quote_request(name, sym, get_user_tier(name), "http", allowed)

\* POST /api/batch-quotes, lines 176-206
BatchEndpoint(name, symbols, allowed) ==
    IF rejects(allowed) THEN HttpDenied("batch")
    ELSE req = NoReq /\ batch_request(name, symbols, allowed)

\* GET /api/market-data/{symbol}, lines 113-148
MarketEndpoint(name, sym, allowed) ==
    IF rejects(allowed) THEN HttpDenied("market_data")
    ELSE ~batch.active /\ market_request(sym, get_user_tier(name), allowed)

\* the upstream answers the request a pull method waits for
PullResponse ==
    \/ /\ req # NoReq /\ req.origin # "market_data"
       /\ \E ok \in BOOLEAN : QuoteResponse(ok)
    \/ /\ req # NoReq /\ req.origin = "market_data"
       /\ \E answer \in MarketAnswers : MarketDataResponse(answer)
    \/ \E i \in 1..MaxBatch, ok \in BOOLEAN : BatchTaskResponse(i, ok)

\* requests to the pull endpoints, one followed at a time
NextPull ==
    \/ \E name \in PullNames, sym \in Symbols, allowed \in BOOLEAN :
            ~batch.active /\ QuoteEndpoint(name, sym, allowed)
    \/ \E name \in PullNames, symbols \in PullBatches, allowed \in BOOLEAN :
            BatchEndpoint(name, symbols, allowed)
    \/ \E name \in PullNames, allowed \in BOOLEAN :
            MarketEndpoint(name, "X", allowed)
    \/ PullResponse
    \/ AdvancePS

----------------------------------------------------------------------------
\* the limiter and the push service run with the development cache
Init == InitRL /\ InitWS /\ InitPS /\ redis_client = "MockRedis"

\* the pull service runs with either client
InitService ==
    InitRL /\ InitWS /\ InitPS /\ redis_client \in {"Redis", "MockRedis"}

SpecRL == Init /\ [][NextRL]_vars

SpecQuery == Init /\ [][NextQuery]_vars

SpecSweep == Init /\ [][NextSweep]_vars

SpecWS == Init /\ [][NextWS]_vars

SpecPS == InitService /\ [][NextPS]_vars

SpecBatch == Init /\ [][NextBatch]_vars

\* the cache calls are followed on the development cache
SpecCache == Init /\ [][NextCache]_vars

SpecMarket == InitService /\ [][NextMarket]_vars

SpecPull == Init /\ [][NextPull]_vars

SpecSteady == Init /\ [][NextSteady]_vars

SpecFlush == InitService /\ [][NextFlush]_vars

SpecConn == Init /\ [][NextConn]_vars /\ FairConn

SpecDispatch == Init /\ [][NextDispatch]_vars

SpecShutdown == Init /\ [][NextShutdown]_vars

----------------------------------------------------------------------------
(* Properties of the rate limiter *)

Quota(tier) == get_tier_config(tier).rate_limit_per_minute

\* the admitted calls of key k whose timestamp lies in the window [w, w + 60]
AdmittedIn(k, w) ==
    Cardinality({i \in 1..Len(admitted[k]) :
                    admitted[k][i] >= w /\ admitted[k][i] <= w + Window})

\* C1: for a key used with one tier of quota Q, starting from an empty
\* history, the first Q calls of is_allowed made within 60 seconds of the
\* first call return true and the (Q+1)th call within those 60 seconds
\* returns false; and no 60-second window holds more than Q admitted calls.
C1_QuotaPerWindow ==
    \A k \in Keys : \A t \in RLTiers :
        tiers_used[k] = {t} =>
            /\ \A w \in 0..(MaxTicks * TickLen) : AdmittedIn(k, w) <= Quota(t)
            /\ (rl.op = "is_allowed" /\ rl.key = k
                    /\ rl.time <= first_call[k] + Window) =>
                  /\ (ncalls[k] <= Quota(t) => rl.ret)
                  /\ (ncalls[k] = Quota(t) + 1 => ~rl.ret)

\* the (Q+1)th call of a freemium key, made exactly 60 seconds after the
\* first one, has just been denied after Q admitted calls
C1_Witness ==
    \E k \in Keys :
        /\ rl.op = "is_allowed" /\ rl.key = k /\ ~rl.ret
        /\ tiers_used[k] = {FREEMIUM}
        /\ ncalls[k] = Quota(FREEMIUM) + 1
        /\ Len(admitted[k]) = Quota(FREEMIUM)
        /\ rl.time = first_call[k] + Window

\* C2: once a key used with one tier has exhausted its quota (its queue
\* holds Q admitted calls), a call made more than 60 seconds after the first
\* (oldest) of those admitted calls returns true again.
C2_AllowedAgainAfterWindow ==
    (/\ rl.op = "is_allowed"
     /\ tiers_used[rl.key] = {rl.tier}
     /\ rl.prelen >= Quota(rl.tier)
     /\ rl.time > rl.prehead + Window) => rl.ret

\* a call on an exhausted key, more than 60 seconds after the first admitted
\* call, has just been admitted
C2_Witness ==
    /\ rl.op = "is_allowed"
    /\ tiers_used[rl.key] = {rl.tier}
    /\ rl.prelen >= Quota(rl.tier)
    /\ rl.time > rl.prehead + Window
    /\ rl.ret

\* the timestamps newer than t - 60 among the admitted calls of a key
RecentIn(times, t) ==
    Cardinality({i \in 1..Len(times) : times[i] > t - Window})

RecentAdmitted(k, t) == RecentIn(admitted[k], t)

\* the admitted calls of key k that is_allowed still counts at time t
CountedAdmitted(k, t) ==
    Cardinality({i \in 1..Len(admitted[k]) : admitted[k][i] >= t - Window})

\* C22: get_remaining_requests(key, tier) returns max(0, quota - number of
\* requests admitted for the key within the last 60 seconds): it is never
\* negative, it is the quota for a key with no request in the last 60
\* seconds, and an admitted is_allowed call lowers what it returns at that
\* same instant by exactly one.
C22_RemainingRequests ==
    [][/\ rl'.op = "get_remaining_requests" =>
            /\ rl'.value = Max(0, Quota(rl'.tier)
                                    - RecentIn(admitted'[rl'.key], rl'.time))
            /\ rl'.value >= 0
            /\ RecentIn(admitted'[rl'.key], rl'.time) = 0
                    => rl'.value = Quota(rl'.tier)
       /\ \A k \in Keys :
            (ncalls'[k] = ncalls[k] + 1 /\ rl'.ret /\ now' = now) =>
                remaining(request_history', k, rl'.tier, now')
                    = remaining(request_history, k, rl'.tier, now) - 1
      ]_vars

\* get_remaining_requests has just returned 0 to a freemium caller for a key
\* that holds stale timestamps and more than 10 requests of the last 60
\* seconds
C22_Witness ==
    /\ rl.op = "get_remaining_requests"
    /\ rl.tier = FREEMIUM /\ rl.value = 0
    /\ RecentAdmitted(rl.key, rl.time) > Quota(FREEMIUM)
    /\ rl.prelen > RecentAdmitted(rl.key, rl.time)

\* C23: get_reset_time(key) returns the timestamp of the oldest request of
\* the last 60 seconds plus 60 seconds, and nothing when the key has no
\* request within the last 60 seconds, also when older timestamps are still
\* in its queue; a returned reset time is never in the past.
C23_ResetTimeNotInPast ==
    rl.op = "get_reset_time" =>
        /\ CountedAdmitted(rl.key, rl.time) = 0 => rl.value = NoTime
        /\ rl.value # NoTime => rl.value >= rl.time

\* C24: every is_allowed call returns what a limiter that receives the same
\* calls at the same times and never runs the sweep returns.
C24_SweepKeepsDecisions ==
    rl.op = "is_allowed" => rl.ret = rl.nosweep

\* a call that ran the sweep has just been denied, and the sweep has removed
\* from the history something the limiter without sweep still holds
C24_Witness ==
    /\ rl.op = "is_allowed" /\ ~rl.ret /\ ~rl.nosweep
    /\ last_cleanup = rl.time /\ last_cleanup > 0
    /\ request_history # nosweep_history

\* C30: is_allowed runs without a suspension point, so a request task sees
\* every timestamp appended by the tasks that ran before it: when a request
\* was admitted into the last free slot of a key, a second request for the
\* key made at the same instant with the same tier is denied.
C30_LastSlotAdmitsOne ==
    [][\A k \in Keys :
         (/\ rl.op = "is_allowed" /\ rl.key = k /\ rl.ret /\ rl.time = now
          /\ CountedAdmitted(k, now) = Quota(rl.tier)
          /\ ncalls'[k] = ncalls[k] + 1
          /\ rl'.tier = rl.tier /\ now' = now) => ~rl'.ret
      ]_vars

\* the second of two requests made at the same instant has just been denied
\* after the first one took the last slot
C30_Witness ==
    /\ rl.op = "is_allowed" /\ ~rl.ret
    /\ admitted[rl.key] # <<>>
    /\ admitted[rl.key][Len(admitted[rl.key])] = rl.time
    /\ CountedAdmitted(rl.key, rl.time) = Quota(rl.tier)
    /\ ncalls[rl.key] = Quota(rl.tier) + 1

\* the timestamps of a queue that are not older than 60 seconds at time t
NotOlder(requests, t) == SelectSeq(requests, LAMBDA x : x >= t - Window)

\* the queue of a key, empty for a key that is not tracked
QueueOf(history, k) == IF k \in DOMAIN history THEN history[k] ELSE <<>>

\* the instants of the model from t on
InstantsFrom(t) == {u \in t..(MaxTicks * TickLen) : u % TickLen = 0}

\* C35: a denied is_allowed call records nothing: the queue of the key after
\* the call is the queue before the call without its entries older than 60
\* seconds, no admission is noted, and at every later instant the limiter
\* decides for the key as it would have decided without the denied call.
C35_DeniedRecordsNothing ==
    [][\A k \in Keys :
         (ncalls'[k] = ncalls[k] + 1 /\ ~rl'.ret) =>
            /\ k \in DOMAIN request_history'
            /\ request_history'[k] = NotOlder(QueueOf(request_history, k), now')
            /\ admitted' = admitted
            /\ \A u \in InstantsFrom(now') :
                    check_and_record(request_history', k, Quota(rl'.tier), u).ret
                    = check_and_record(request_history, k, Quota(rl'.tier), u).ret
      ]_vars

\* a call has just been denied on a key whose queue held entries older than
\* 60 seconds next to a full quota of newer ones
C35_Witness ==
    /\ rl.op = "is_allowed" /\ ~rl.ret
    /\ rl.prelen > Len(request_history[rl.key])
    /\ Len(request_history[rl.key]) = Quota(rl.tier)
    /\ rl.prehead < rl.time - Window

\* what is_allowed(k, tier) would return if called in this state
WouldAllow(k, tier) ==
    LET swept == _cleanup_old_entries(request_history, last_cleanup, now)
    IN  check_and_record(swept[1], k, Quota(tier), now).ret

\* C36: at any instant, for any key and tier, get_remaining_requests
\* returns more than 0 if and only if is_allowed called at that instant
\* would return true.
C36_RemainingIffAllowed ==
    \A k \in Keys : \A t \in RLTiers :
        (remaining(request_history, k, t, now) > 0) <=> WouldAllow(k, t)

\* C39: get_remaining_requests and get_reset_time leave the tracked keys
\* and every queue of the limiter as they were.
C39_QueriesAreReadOnly ==
    [][(rl' # rl /\ rl'.op \in {"get_remaining_requests", "get_reset_time"})
            => request_history' = request_history]_vars

----------------------------------------------------------------------------
(* Properties of the websocket manager *)

\* C3: while the upstream connection is open and authenticated, the sinks
\* connected to one symbol cause one upstream subscribe frame for it, however
\* their connect calls interleave: no symbol gets a second subscribe frame on
\* the same upstream connection while it has sinks.
C3_OneSubscribePerSymbol ==
    \A sym \in Symbols : sub_count[sym] <= 1

\* C4: with the upstream connection open, the disconnect of a registered sink
\* that is not the last one of its symbol sends no upstream frame and only
\* removes the sink; the disconnect of the last one sends exactly one
\* unsubscribe frame for the symbol and deletes the symbol's registry entry.
C4_DisconnectUnsubscribesLast ==
    [][\A s \in Sinks :
          (/\ sink_pc[s] = "open"
           /\ sink_pc'[s] # "open"
           /\ ws_is_open
           /\ Registered(connections, sink_sym[s], s)) =>
              LET sym == sink_sym[s]
              IN  IF connections[sym] = <<s>>
                  THEN /\ out' = Frame("unsubscribe", sym, authed)
                       /\ sink_pc'[s] = "unsub_wait"
                       /\ sym \notin DOMAIN connections'
                  ELSE /\ out' = NoFrame
                       /\ sink_pc'[s] = "done"
                       /\ sym \in DOMAIN connections'
                       /\ Range(connections'[sym]) = Range(connections[sym]) \ {s}
      ]_vars

\* the last sink of a symbol has just disconnected after another sink had
\* left before it: the unsubscribe frame is out and the entry is gone
C4_Witness ==
    \E s \in Sinks :
        /\ sink_pc[s] = "unsub_wait"
        /\ out = Frame("unsubscribe", sink_sym[s], TRUE)
        /\ sink_sym[s] \notin DOMAIN connections
        /\ sink_sym[s] \in subscribed_symbols
        /\ \E s2 \in Sinks \ {s} : sink_pc[s2] = "done"

\* no connect, disconnect or broadcast is mid-flight
Quiescent ==
    /\ \A s \in Sinks : sink_pc[s] \in {"idle", "open", "done"}
    /\ conn_pc # "bcast"

\* C5: whenever no connect, disconnect or broadcast is mid-flight, a symbol is
\* in the upstream-subscribed set exactly when its sink set is non-empty.
C5_SubscribedIffSinks ==
    Quiescent =>
        \A sym \in Symbols : sym \in subscribed_symbols <=> HasSinks(sym)

\* C6: a broadcast to a symbol with live and failed sinks delivers the message
\* to every live sink, removes every failed sink from the symbol's sink set,
\* keeps the live ones and does not raise.
C6_BroadcastIsolatesFailedSinks ==
    (bres.done /\ bres.mixed) =>
        /\ bres.missed = {}
        /\ bres.stuck = {}
        /\ bres.dropped = {}
        /\ ~bres.raised

\* C7: when a broadcast has removed the last sink of a symbol, then, once the
\* handlers of the symbol's sinks have called disconnect, the registry entry
\* of the symbol is deleted and the symbol has left the upstream-subscribed
\* set.
C7_EmptiedByBroadcastIsCleanedUp ==
    \A sym \in emptied_by_bcast :
        (\A s \in Sinks : sink_sym[s] # sym) =>
            /\ sym \notin DOMAIN connections
            /\ sym \notin subscribed_symbols

\* no sink of the symbol is waiting for its own subscribe frame to be sent
NoSubscribePending(sym) ==
    \A s \in Sinks : sink_sym[s] = sym => sink_pc[s] # "sub_wait"

\* C8: once the connector is streaming on an authenticated upstream
\* connection, every symbol that has sinks, the ones that gained their first
\* sink while the upstream was disconnected included, is subscribed upstream:
\* the resubscribe loop that follows auth_success has covered it.
C8_SinksSubscribedAfterAuth ==
    (conn_pc = "listen" /\ ws_is_open /\ authed) =>
        \A sym \in Symbols :
            (HasSinks(sym) /\ NoSubscribePending(sym)) =>
                sym \in subscribed_symbols

\* C9: no subscribe frame is sent on an upstream connection before that
\* connection has received auth_success.
C9_NoSubscribeBeforeAuth ==
    out.action = "subscribe" => out.authed

\* C10: after an auth failure the connector waits at least 30 seconds before
\* its next connection attempt, and the failure does not end the loop: the
\* connector sleeps and then connects again.
C10_AuthFailureBacksOff ==
    /\ retry_gap # NoGap => retry_gap >= 30
    /\ fail_pending => conn_pc = "sleep"
    /\ conn_pc \in {"connecting", "auth", "resub_wait", "listen", "bcast", "sleep"}

\* the connector has just started its next attempt after an auth failure
C10_Witness ==
    /\ retry_gap # NoGap
    /\ conn_pc = "connecting"
    /\ polygon_ws = "closed_ok"

\* C25: the upstream-subscribed set is written by the connector loop only: a
\* step of a sink's handler (connect, disconnect and the subscribe and
\* unsubscribe calls they make) leaves the upstream-subscribed set unchanged.
C25_SinksLeaveSubscribedSet ==
    [][sink_pc' # sink_pc => subscribed_symbols' = subscribed_symbols]_vars

\* C29: a completed broadcast has delivered the message to every live sink
\* that was registered for the symbol when it started and is still registered
\* when it ends, also when other sinks of the symbol connected or
\* disconnected while the broadcast was suspended on a send.
C29_BroadcastSkipsNoRegisteredSink ==
    bres.done =>
        \A s \in bres.missed : ~Registered(connections, bres.sym, s)

\* C37: on an upstream connection that stays open and authenticated, when
\* the disconnect of the last sink of a symbol completes its unsubscribe
\* after a new sink has completed its connect to the symbol, the symbol,
\* which has sinks again, is in the upstream-subscribed set.
C37_ResubscribedAfterRace ==
    [][\A s \in Sinks :
         (/\ sink_pc[s] = "unsub_wait" /\ sink_pc'[s] = "done"
          /\ send_ok[s] /\ ws_is_open /\ authed
          /\ HasSinks(sink_sym[s])
          /\ \A s2 \in Range(connections[sink_sym[s]]) :
                sink_pc[s2] = "open") =>
            sink_sym[s] \in subscribed_symbols'
      ]_vars

\* C38: a broadcast never raises, also when the registry entry of its
\* symbol was deleted while it was suspended on a send.
C38_BroadcastNeverRaises == bres.done => ~bres.raised

\* the broadcasts the items of a frame call for, in the order of the items:
\* one for every object with a symbol, a code Q, T or A and fields that
\* convert
RECURSIVE ExpectedCasts(_)
ExpectedCasts(items) ==
    IF items = <<>> THEN <<>>
    ELSE LET i    == Head(items)
             type == IF i.ev = "Q" THEN "quote"
                     ELSE IF i.ev = "T" THEN "trade" ELSE "aggregate"
             cast == i.dict /\ i.sym \in Symbols /\ i.ev \in {"Q", "T", "A"} /\ i.ok
         IN  (IF cast THEN <<[type |-> type, sym |-> i.sym]>> ELSE <<>>)
                \o ExpectedCasts(Tail(items))

\* C28: an item without symbol or with a code other than Q, T and A gives no
\* broadcast and no exception; an item with a symbol and code Q, T or A gives
\* exactly one broadcast of type quote, trade or aggregate to its symbol; the
\* items of an array are handled in array order and a dropped or malformed
\* item does not keep the later items from being broadcast.
C28_DispatchByEventCode ==
    pm.pc = "done" =>
        /\ pm.casts = ExpectedCasts(pm.frame.items)
        /\ ~pm.aborted

\* an array whose first item is malformed and whose second item is a trade
\* for X has been handled: one trade broadcast to X was made
C28_Witness ==
    /\ pm.pc = "done" /\ pm.frame.kind = "array" /\ Len(pm.frame.items) = 2
    /\ LET i == pm.frame.items[1]
       IN  ~i.dict \/ (i.sym = "X" /\ i.ev = "Q" /\ ~i.ok)
    /\ pm.frame.items[2] = [dict |-> TRUE, ev |-> "T", sym |-> "X", ok |-> TRUE]
    /\ pm.casts = <<[type |-> "trade", sym |-> "X"]>>

\* C26: once disconnect_all has ended, every sink that was registered has
\* been closed, the registry and the upstream-subscribed set are empty and
\* the upstream connection is not open, also when handlers of sinks were
\* inside connect or disconnect while disconnect_all was suspended.
C26_ShutdownLeavesNothing ==
    shut.pc \in {"done", "raised"} =>
        /\ shut.start \subseteq shut.closed
        /\ connections = <<>>
        /\ subscribed_symbols = {}
        /\ ~ws_is_open

----------------------------------------------------------------------------
(* the cache and the quote path *)

\* C11: a read of the in-memory store never returns an entry whose age has
\* reached the ttl it was set with
C11_NoEntryAtOrPastTtl ==
    (redis_client = "MockRedis" /\ Last.got = "hit") => Last.entry_age < Last.entry_ttl

\* C12: a quote returned by get_real_time_quote is younger than the staleness
\* bound of the requesting tier, and a request that finds a cached quote
\* whose age has reached that bound goes on to the upstream
C12_ReturnedQuoteIsFresh ==
    /\ Last.age # NoTime => Last.age < Last.cfg.real_time_delay
    /\ (Last.op = "quote" /\ Last.got = "hit"
            /\ Last.cache_age >= Last.cfg.real_time_delay)
          => (Last.fetch /\ Last.result = "pending")

C12_Witness ==
    /\ Last.op = "quote" /\ Last.got = "hit"
    /\ Last.tier = INSTITUTIONAL_ELITE
    /\ Last.cache_age >= 30
    /\ Last.fetch

\* C13: a freemium quote request for a symbol whose last upstream fetch is
\* less than 3600 seconds old is answered with the cached quote, without a
\* new upstream fetch
C13_FreemiumServedFromCache ==
    (Last.op = "quote" /\ Last.tier = FREEMIUM
        /\ Last.since_fetch # NoTime /\ Last.since_fetch < 3600)
      => (Last.result = "quote" /\ ~Last.fetch)

\* C14: a batch longer than the batch limit of its tier fails at once, with
\* no task created, no cache access and no upstream request; a batch within
\* the limit does not fail the precondition
C14_BatchLimitPrecondition ==
    [][(Last'.op = "batch" /\ Last'.result # "rejected") =>
          IF Last'.n > Last'.cfg.batch_size_limit
          THEN /\ Last'.result = "too_large"
               /\ Last'.tasks = 0 /\ ~Last'.fetch
               /\ ~batch'.active
               /\ data' = data /\ expires' = expires
          ELSE Last'.result # "too_large"]_vars

C14_Witness ==
    Last.op = "batch" /\ Last.result = "too_large" /\ Last.n = 6 /\ Last.tier = FREEMIUM

\* C15: a batch within the limit never fails because of a lookup that failed;
\* it returns one quote per lookup that succeeded and nothing else
C15_BatchReturnsSuccessfulLookups ==
    /\ Last.origin = "batch" => Last.result # "raise"
    /\ Last.result = "batch" => Last.results = Last.succeeded

C15_Witness ==
    /\ Last.op = "task" /\ Last.result = "batch"
    /\ Last.n = 2
    /\ Last.results["X"] = 1 /\ Last.results["Y"] = 0

\* C16: a step sends a request to the upstream only for a caller for which
\* is_allowed has returned true
C16_FetchOnlyAfterLimiter == Last.fetch => Last.limited

\* C17: a cache operation whose store call fails does not raise and leaves
\* the store alone: the read gives nothing and the request goes on as on a
\* miss, the write and the delete do nothing, the key scan gives no key
C17_StoreFailureDegrades ==
    [][Last'.store_failed =>
          /\ Last'.result # "raise"
          /\ data' = data /\ expires' = expires
          /\ Last'.op = "quote" => (Last'.got = "failed" /\ Last'.fetch)
          /\ Last'.op = "response" => (Last'.result = "quote" /\ ~Last'.wrote)
          /\ Last'.op = "keys" => Last'.keys = {}]_vars

C17_Witness ==
    /\ Last.store_failed /\ Last.op = "response" /\ Last.result = "quote"
    /\ data # <<>>

\* C18: the configuration of ranks 1..7 is the fixed table, an unknown rank
\* gets the configuration of rank 1, and a request is served with the
\* configuration of the rank its tier name stands for (rank 1 for an unknown
\* name)
C18_TierTable ==
    LET bound  == <<3600, 900, 900, 300, 300, 60, 30>>
        histtl == <<86400, 3600, 3600, 1800, 1800, 300, 300>>
        perMin == <<10, 30, 50, 100, 200, 500, 1000>>
        limit  == <<5, 10, 25, 50, 100, 200, 500>>
        Is(cfg, r) ==
            /\ cfg.real_time_delay = bound[r]
            /\ cfg.historical_cache_ttl = histtl[r]
            /\ cfg.rate_limit_per_minute = perMin[r]
            /\ cfg.batch_size_limit = limit[r]
            /\ cfg.websocket_enabled = (r >= 2)
        rank(name) ==
            CASE name = "freemium" -> 1
              [] name = "market_hours_pro" -> 2
              [] name = "sector_specialist" -> 3
              [] name = "weekend_warrior" -> 4
              [] name = "dark_pool_insider" -> 5
              [] name = "algorithmic_trader" -> 6
              [] name \in {"institutional_elite", "Institutional_Elite"} -> 7
              [] OTHER -> 1
    IN  /\ \A r \in 1..7 : Is(get_tier_config(r), r)
        /\ \A r \in {0, 8} : Is(get_tier_config(r), 1)
        /\ \A name \in TierNames :
              Is(get_tier_config(get_user_tier(name)), rank(name))
        /\ Last.name # "" => Is(Last.cfg, rank(Last.name))

C18_Witness ==
    Last.op = "quote" /\ Last.name = "platinum" /\ Last.result = "pending"

\* C21: a set on a key that holds an entry with time left replaces the
\* payload and restarts the expiry clock: while less than the ttl of that
\* set has passed since it, get returns its value, and from then on get
\* returns nothing, whatever the ttl and the age of the replaced entry were.
C21_SetRestartsExpiry ==
    (Last.op = "get" /\ ~Last.store_failed /\ Last.replaced) =>
        /\ Last.entry_age < Last.entry_ttl =>
                Last.got = "hit" /\ Last.value = Last.set_value
        /\ Last.entry_age >= Last.entry_ttl => Last.got = "miss"

\* C27: get_market_data returns a cached entry whose ttl has not elapsed to a
\* caller of any tier without a request to the upstream, and an entry it
\* writes gets the historical ttl of the tier of the request that wrote it.
C27_MarketDataServedFromCache ==
    /\ (/\ Last.op = "market_data" /\ ~Last.store_failed
         /\ Last.entry_age # NoTime /\ Last.entry_age < Last.entry_ttl) =>
            Last.got = "hit" /\ ~Last.fetch /\ Last.result = "data" /\ req = NoReq
    /\ (Last.op = "market_response" /\ Last.wrote) =>
            /\ set_ttl[market_key(Last.sym)]
                    = TIER_CONFIGS[Last.tier].historical_cache_ttl
            /\ expires[market_key(Last.sym)]
                    = clock + TIER_CONFIGS[Last.tier].historical_cache_ttl
            /\ set_at[market_key(Last.sym)] = clock

\* a caller of rank 7 has just been served, without a fetch, an entry that a
\* rank 1 request wrote more than 300 seconds (the ttl of rank 7) ago
C27_Witness ==
    /\ Last.op = "market_data" /\ Last.tier = INSTITUTIONAL_ELITE
    /\ Last.got = "hit" /\ ~Last.fetch /\ Last.result = "data"
    /\ Last.entry_ttl = TIER_CONFIGS[FREEMIUM].historical_cache_ttl
    /\ Last.entry_age > TIER_CONFIGS[INSTITUTIONAL_ELITE].historical_cache_ttl

\* C31: when is_allowed has returned false to a pull endpoint, the request
\* is rejected and nothing else is done for it: the cache is not read, no
\* request goes to the upstream, no task is created, and the store and the
\* requests in progress are as before.
C31_DeniedRequestDoesNothing ==
    [][(/\ ev' # NoEv
        /\ ev'.op \in {"quote", "batch", "market_data"}
        /\ ~ev'.limited) =>
            /\ ev'.result = "rejected"
            /\ ev'.got = "none" /\ ~ev'.store_failed
            /\ ~ev'.fetch /\ ~ev'.wrote /\ ev'.tasks = 0
            /\ data' = data /\ expires' = expires
            /\ req' = req /\ batch' = batch
      ]_vars

\* a request has just been rejected while the cache held an entry
C31_Witness ==
    /\ Last.result = "rejected" /\ ~Last.limited
    /\ Last.op \in {"quote", "batch", "market_data"}
    /\ data # <<>>

\* the entries of the store whose ttl has not elapsed (MockRedis.get drops
\* an entry once the clock is past its expiry)
LiveEntries(d, e) ==
    [k \in {x \in DOMAIN d : x \in DOMAIN e => clock <= e[x]} |->
        <<d[k], IF k \in DOMAIN e THEN e[k] ELSE NoTime>>]

\* C32: when the upstream answers a pull request with a status other than
\* success, get_real_time_quote and get_market_data raise to their caller
\* and write nothing: the store is as it was when the answer came, and the
\* lookup that preceded the request has changed no entry that had not
\* expired.
C32_UpstreamErrorFailsAndKeepsCache ==
    [][/\ (/\ ev' # NoEv
           /\ ev'.op \in {"response", "market_response", "task"}
           /\ ev'.upstream = "error") =>
              /\ ev'.op # "task" => ev'.result = "raise"
              /\ ~ev'.wrote
              /\ data' = data /\ expires' = expires
       /\ (/\ ev' # NoEv
           /\ ev'.op \in {"quote", "market_data"}
           /\ ev'.fetch) =>
              LiveEntries(data', expires') = LiveEntries(data, expires)
      ]_vars

\* the upstream has just answered a quote request with an error while the
\* store held an entry of the symbol, too old for the tier of the request
C32_Witness ==
    /\ Last.op = "response" /\ Last.upstream = "error"
    /\ Last.result = "raise"
    /\ cache_key(Last.sym) \in DOMAIN data

\* the staleness bound of a tier, in seconds
StalenessBound(tier) == TIER_CONFIGS[tier].real_time_delay

\* C33: concurrent quote requests for one symbol cause at most one upstream
\* fetch for it: of the tasks of a batch, at most one per symbol waits for
\* the upstream.
C33_OneFetchPerSymbol ==
    batch.active =>
        \A y \in Symbols :
            Cardinality({i \in TasksIn(batch.tasks, "fetching") :
                            batch.tasks[i].sym = y}) <= 1

\* C34: get_real_time_quote sends one request to the upstream when the
\* cache has no entry of the symbol or an entry too old for the tier of the
\* caller, and none (and writes nothing) when the entry is fresh for the
\* tier; when the upstream answers with success and the store is reachable,
\* the fetched quote is stored under the key of the symbol with the
\* staleness bound of the tier as ttl, whatever was stored before, and is
\* returned.
C34_FetchStoreReturn ==
    [][/\ (/\ ev' # NoEv /\ ev'.op = "quote"
           /\ ev'.result # "rejected" /\ ~ev'.store_failed) =>
            LET fresh == /\ ev'.got = "hit"
                         /\ ev'.cache_age < StalenessBound(ev'.tier)
            IN  /\ ~ev'.wrote
                /\ ~fresh => /\ ev'.fetch
                             /\ req = NoReq /\ req' # NoReq
                             /\ req'.sym = ev'.sym /\ req'.tier = ev'.tier
                /\ fresh => /\ ~ev'.fetch /\ req' = NoReq
                            /\ data' = data /\ expires' = expires
       /\ (/\ ev' # NoEv /\ ev'.op = "response"
           /\ ev'.upstream = "ok" /\ ~ev'.store_failed) =>
            LET key == cache_key(ev'.sym)
            IN  /\ ev'.wrote /\ ev'.result = "quote" /\ ev'.age = 0
                /\ req' = NoReq
                /\ key \in DOMAIN data' /\ key \in DOMAIN expires'
                /\ json_loads(data'[key]).symbol = ev'.sym
                /\ fromisoformat(json_loads(data'[key]).timestamp) = clock
                /\ expires'[key] = clock + StalenessBound(ev'.tier)
                /\ \A k \in DOMAIN data \ {key} :
                        k \in DOMAIN data' /\ data'[k] = data[k]
      ]_vars

\* a request of the highest tier has just met an entry that is 30 seconds
\* old, written with a longer ttl, and has gone to the upstream
C34_Witness ==
    /\ Last.op = "quote" /\ Last.got = "hit" /\ Last.fetch
    /\ Last.tier = INSTITUTIONAL_ELITE
    /\ Last.cache_age = StalenessBound(INSTITUTIONAL_ELITE)
    /\ Last.entry_ttl > StalenessBound(INSTITUTIONAL_ELITE)
    /\ req # NoReq

\* C40: after flush_pattern(pattern), with either store client, no key that
\* matched the pattern is in the store, whatever their number, and the keys
\* that do not match are unchanged.
C40_FlushDeletesAllMatching ==
    [][(ev' # NoEv /\ ev'.op = "flush") =>
            /\ \A k \in ev'.keys : k \notin DOMAIN data'
            /\ \A k \in DOMAIN data \ ev'.keys :
                    /\ k \in DOMAIN data' /\ data'[k] = data[k]
                    /\ k \in DOMAIN expires' /\ expires'[k] = expires[k]
      ]_vars

----------------------------------------------------------------------------
(* the connector loop: retries *)

\* C19: the connector loop comes back to the connection attempt after every
\* wait, and, with an upstream that accepts a connection and answers
\* auth_success again and again, it is in the receive loop again and again
C19_ConnectorNeverGivesUp ==
    /\ (conn_pc = "sleep") ~> (conn_pc = "connecting")
    /\ []<>(conn_pc = "listen")

C19_Witness ==
    /\ conn_pc = "connecting"
    /\ polygon_ws = "closed_err"
    /\ sleep_left = 0

\* C20: the connector loop starts a connection attempt only out of a wait
C20_BackoffBeforeReconnect ==
    [][(conn_pc' = "connecting" /\ conn_pc # "connecting")
          => conn_pc = "sleep"]_vars

============================================================================
